---------------------------- MODULE Spec2Model ----------------------------
(***************************************************************************)
(* A model of the ResearchHub MCP server (src/server.py, with the          *)
(* rate limiter it shares with src/server_secure.py).                      *)
(*                                                                         *)
(* Python values are modelled as follows.                                  *)
(*   str      a sequence of one-character strings (so that startswith, in, *)
(*            isdigit and len are computed, not assumed); fixed labels     *)
(*            such as "crossref" stay TLA+ strings                         *)
(*   dict     a function whose domain is the set of its keys               *)
(*   list     a sequence                                                   *)
(*   Optional <<>> for None, <<v>> for the value v                         *)
(*   raise    an outcome record with ok = FALSE carrying the exception     *)
(* Time is counted in ticks of 1/TicksPerSec second.                       *)
(***************************************************************************)
EXTENDS Integers, Sequences, FiniteSets, TLC

VARIABLES
    now,         \* time.time(), in ticks
    _last_call,  \* the module global _last_call, in ticks
    pc,          \* "idle" | "returned" | "raised": where the serving loop is
    call,        \* the tool call being served: its name and arguments
    result,      \* what the call returned, or the exception it raised
    log,         \* the outbound requests and limiter passes of the call, in order
    id_type,     \* the effective id_type of the resolver after auto-detection
    th,          \* per thread of the step-by-step limiter: where it is in
                 \* _respect_rate_limit, its wait and the end of its sleep
    permits      \* the values those threads wrote to _last_call, oldest first

vars == <<now, _last_call, pc, call, result, log, id_type, th, permits>>

---------------------------------------------------------------------------
(* Bounds of the model *)

\* longest identifier string drawn for the classifier
MaxIdLen == 7
\* longest explicit databases list
MaxDbLen == 2
\* ticks per second of the model clock
TicksPerSec == 2
\* the clock stops advancing here
MaxTime == 6
\* most limiter passes recorded in permits
MaxPermits == 3

(* Program constants *)

RATE_LIMIT == 1

\* 1.0 / RATE_LIMIT, in ticks
Interval == TicksPerSec \div RATE_LIMIT

---------------------------------------------------------------------------
(* Python helpers *)

None == <<>>
Some(v) == <<v>>
IsNone(o) == Len(o) = 0
Val(o) == o[1]

SeqsUpTo(S, n) == UNION {[1..k -> S] : k \in 0..n}

\* {**base, **d}: the keys of d override those of base
Spread(base, d) ==
    [k \in DOMAIN base \cup DOMAIN d |-> IF k \in DOMAIN d THEN d[k] ELSE base[k]]

Raise(type, msg) == [ok |-> FALSE, exc |-> [type |-> type, msg |-> msg]]
Return(v) == [ok |-> TRUE, val |-> v]

\* str(e)
str(e) == e.msg

---------------------------------------------------------------------------
(* The identifier classifier: the auto-detection at the head of            *)
(* _get_paper_by_identifier_impl                                           *)

Digits == {"0", "1"}
Chars == Digits \cup {".", "/", "a"}

\* s.startswith(prefix)
startswith(s, prefix) ==
    /\ Len(s) >= Len(prefix)
    /\ \A i \in 1..Len(prefix) : s[i] = prefix[i]

\* c in s, for a one-character c
contains(s, c) == \E i \in 1..Len(s) : s[i] = c

\* s.isdigit(): non-empty and every character a digit
isdigit(s) == Len(s) > 0 /\ \A i \in 1..Len(s) : s[i] \in Digits

\* any(char.isdigit() for char in s)
any_digit(s) == \E i \in 1..Len(s) : s[i] \in Digits

\* a faulty variant of classify: the pmid rule with "> 7" for ">= 7"
classify_gt7(identifier) ==
    IF startswith(identifier, <<"1", "0", ".">>) /\ contains(identifier, "/") THEN "doi"
    ELSE IF isdigit(identifier) /\ Len(identifier) > 7 THEN "pmid"
    ELSE IF contains(identifier, ".") /\ any_digit(identifier) THEN "arxiv"
    ELSE "s2"

\* the if/elif chain of the "if id_type is None" block
classify(identifier) ==
    IF startswith(identifier, <<"1", "0", ".">>) /\ contains(identifier, "/") THEN "doi"
    ELSE IF isdigit(identifier) /\ Len(identifier) >= 7 THEN "pmid"
    ELSE IF contains(identifier, ".") /\ any_digit(identifier) THEN "arxiv"
    ELSE "s2"

\* a faulty variant of effective_id_type: a kind that is none of the four is
\* replaced by the classifier's
effective_id_type_known(identifier, supplied) ==
    IF IsNone(supplied) \/ Val(supplied) \notin {"doi", "pmid", "arxiv", "s2"}
    THEN classify(identifier) ELSE Val(supplied)

\* id_type after the "if id_type is None" block
effective_id_type(identifier, supplied) ==
    IF IsNone(supplied) THEN classify(identifier) ELSE Val(supplied)

---------------------------------------------------------------------------
(* Outbound HTTP: requests.get(...), r.raise_for_status() and the parse of  *)
(* the body.  The provider's answer to one request is drawn by the          *)
(* environment:                                                             *)
(*   network_error  requests.get raises (connection failure, timeout)       *)
(*   http_error     a non-2xx status: raise_for_status raises               *)
(*   malformed      the body does not parse, or lacks the keys read         *)
(*   ok             a well-formed body, its content in payload              *)

FailureKinds == {"network_error", "http_error", "malformed"}
Failures == {[kind |-> k] : k \in FailureKinds}
Ok(payload) == [kind |-> "ok", payload |-> payload]
Unused == [kind |-> "unused"]

\* the outcome of requests.get + raise_for_status + parse for the answer resp
http_get(resp) ==
    IF resp.kind = "network_error" THEN Raise("ConnectionError", <<"connection failed">>)
    ELSE IF resp.kind = "http_error" THEN Raise("HTTPError", <<"bad status">>)
    ELSE IF resp.kind = "malformed" THEN Raise("ParseError", <<"malformed body">>)
    ELSE Return(resp.payload)

\* The part of the process an adapter can change: the clock (it sleeps), the
\* global _last_call and the record of what was sent.
Machine(t, last, events) == [now |-> t, last |-> last, log |-> events]

\* a faulty variant of Sent: the request goes out a second time
Sent_again(m, req) == [m EXCEPT !.log = Append(Append(@, req), req)]

\* requests.get or requests.post is called with req
Sent(m, req) == [m EXCEPT !.log = Append(@, req)]

Request(provider, endpoint, params) ==
    [ev |-> "request", provider |-> provider, endpoint |-> endpoint, params |-> params]

---------------------------------------------------------------------------
(* The rate limiter, as one uninterrupted pass (a single flow of control):  *)
(* time.sleep(wait) sleeps exactly wait.                                    *)

\* a faulty variant of wait_for: the difference taken the other way round
wait_inverted(t, last) == (t - last) - Interval

\* wait = 1.0 / RATE_LIMIT - (time.time() - _last_call)
wait_for(t, last) == Interval - (t - last)

\* a faulty variant of _respect_rate_limit: the pass is left out
_respect_rate_limit_skipped(m) == m

_respect_rate_limit(m) ==
    LET wait == wait_for(m.now, m.last)
        t == IF wait > 0 THEN m.now + wait ELSE m.now
    IN [now |-> t, last |-> t,
        log |-> m.log \o <<[ev |-> "rl_read", at |-> m.now, seen |-> m.last],
                           [ev |-> "rl_write", at |-> t]>>]

---------------------------------------------------------------------------
(* CrossRef *)

\* the "message" objects CrossRef answers a DOI lookup with; the live API puts
\* a "source" member in every work
CrossrefWorks ==
    { [DOI |-> "10.1/a", title |-> "T"],
      [DOI |-> "10.1/a", title |-> "T", source |-> "Crossref"] }

_crossref_doi_lookup_impl(doi, resp, m) ==
    [out |-> http_get(resp),
     m |-> Sent(m, Request("crossref", "works/doi", [doi |-> doi]))]

\* r.json() of a works search: message.total-results and message.items
CrossrefSearchBodies ==
    { [total_results |-> 0, items |-> <<>>],
      [total_results |-> 1, items |-> <<[DOI |-> "10.1/a", title |-> "T", source |-> "Crossref"]>>] }

_crossref_works_search_impl(query, rows, resp, m) ==
    LET r == http_get(resp)
    IN [out |-> IF r.ok
                THEN Return([total_results |-> r.val.total_results, items |-> r.val.items])
                ELSE r,
        m |-> Sent(m, Request("crossref", "works", [query |-> query, rows |-> rows]))]

---------------------------------------------------------------------------
(* Python helpers on JSON objects.  The members of a JSON object read with  *)
(* .get are Optional: None is JSON null.                                    *)

\* d.get(k)
get(d, k) == IF k \in DOMAIN d THEN d[k] ELSE None

\* d.get(k, default)
get_default(d, k, default) == IF k \in DOMAIN d THEN d[k] ELSE default

\* bool(o) for an optional string
truthy_str(o) == ~IsNone(o) /\ Val(o) # ""

\* bool(o) for an optional JSON object
truthy_dict(o) == ~IsNone(o) /\ DOMAIN Val(o) # {}

\* bool(o) for an optional integer
truthy_int(o) == ~IsNone(o) /\ Val(o) # 0

\* s[:n]
Take(s, n) == SubSeq(s, 1, IF n < Len(s) THEN n ELSE Len(s))

\* sep.join(parts): the pieces of the joined string, in order
join(sep, parts) ==
    IF Len(parts) = 0 THEN <<>>
    ELSE [i \in 1..(2 * Len(parts) - 1) |->
            IF i % 2 = 1 THEN parts[(i + 1) \div 2] ELSE sep]

---------------------------------------------------------------------------
(* Semantic Scholar *)

\* [a.get("name", "Unknown") for a in (paper.get("authors") or [])]
author_names(paper) ==
    LET authors == IF IsNone(get(paper, "authors")) THEN <<>> ELSE Val(get(paper, "authors"))
    IN [i \in 1..Len(authors) |->
          IF "name" \in DOMAIN authors[i] THEN authors[i]["name"] ELSE "Unknown"]

\* len(paper.get("authors", [])) raises TypeError when the member is null
authors_len(paper) ==
    IF "authors" \notin DOMAIN paper THEN Return(0)
    ELSE IF IsNone(paper["authors"])
         THEN Raise("TypeError", <<"object of type 'NoneType' has no len()">>)
         ELSE Return(Len(Val(paper["authors"])))

\* a faulty variant of author_list: " et al." from three authors on
author_list_from_three(names, n) ==
    join(", ", Take(names, 3)) \o (IF n >= 3 THEN <<" et al.">> ELSE <<>>)

\* ", ".join(names[:3]) + (" et al." if n > 3 else "")
author_list(names, n) ==
    join(", ", Take(names, 3)) \o (IF n > 3 THEN <<" et al.">> ELSE <<>>)

\* paper.get("openAccessPdf", {}).get("url") if paper.get("openAccessPdf") else None
pdf_url(paper) ==
    IF truthy_dict(get(paper, "openAccessPdf"))
    THEN get(Val(paper["openAccessPdf"]), "url")
    ELSE None

\* venue_info of _semantic_scholar_paper_details_impl:
\* venue or (journal.get("name") if isinstance(journal, dict) else journal)
venue_info_details(paper) ==
    IF truthy_str(get(paper, "venue")) THEN get(paper, "venue")
    ELSE IF ~IsNone(get(paper, "journal"))
         THEN get(Val(paper["journal"]), "name")
         ELSE get(paper, "journal")

\* venue_info of _semantic_scholar_search_impl, where the conditional binds
\* weaker than "or": (venue or journal.get("name")) if isinstance(journal, dict)
\* else journal
venue_info_search(paper) ==
    IF ~IsNone(get(paper, "journal"))
    THEN IF truthy_str(get(paper, "venue")) THEN get(paper, "venue")
         ELSE get(Val(paper["journal"]), "name")
    ELSE get(paper, "journal")

\* externalIds.get(k) if paper.get("externalIds") else None
external_id(paper, k) ==
    IF truthy_dict(get(paper, "externalIds"))
    THEN get(Val(paper["externalIds"]), k)
    ELSE None

\* the "enhanced" dict of _semantic_scholar_paper_details_impl
enhance_details(paper) ==
    LET n == authors_len(paper)
    IN IF ~n.ok THEN n
       ELSE Return(Spread(paper,
              [author_names |-> author_names(paper),
               author_list |-> author_list(author_names(paper), n.val),
               venue_info |-> venue_info_details(paper),
               has_pdf |-> truthy_dict(get(paper, "openAccessPdf")),
               pdf_url |-> pdf_url(paper),
               doi |-> external_id(paper, "DOI"),
               arxiv_id |-> external_id(paper, "ArXiv"),
               citation_metrics |->
                   [total |-> get_default(paper, "citationCount", Some(0)),
                    influential |-> get_default(paper, "influentialCitationCount", Some(0)),
                    yearly |-> get_default(paper, "citationsPerYear", Some(<<>>))]]))

\* publicationDate or str(paper.get("year", "Unknown")); a year is its decimal text
pub_date(paper) ==
    IF truthy_str(get(paper, "publicationDate")) THEN get(paper, "publicationDate")
    ELSE IF "year" \notin DOMAIN paper THEN Some("Unknown")
    ELSE IF IsNone(paper["year"]) THEN Some("None")
    ELSE paper["year"]

\* one "enhanced" dict of _semantic_scholar_search_impl
enhance_search(paper) ==
    LET n == authors_len(paper)
    IN IF ~n.ok THEN n
       ELSE Return(Spread(paper,
              [author_names |-> author_names(paper),
               author_list |-> author_list(author_names(paper), n.val),
               venue_info |-> venue_info_search(paper),
               has_pdf |-> truthy_dict(get(paper, "openAccessPdf")),
               pdf_url |-> pdf_url(paper),
               pub_date |-> pub_date(paper),
               citation_metrics |->
                   [total |-> get_default(paper, "citationCount", Some(0)),
                    influential |-> get_default(paper, "influentialCitationCount", Some(0))]]))

\* the paper objects Semantic Scholar answers with
PaperFull ==
    [paperId |-> Some("s2id"), title |-> Some("T"),
     authors |-> Some(<<[authorId |-> "1", name |-> "A"], [authorId |-> "2", name |-> "B"]>>),
     venue |-> Some("V"), journal |-> Some([name |-> Some("J")]),
     citationCount |-> Some(5)]
PaperNullAuthors ==
    [paperId |-> Some("s2id"), title |-> Some("T"), authors |-> None,
     venue |-> Some(""), journal |-> None, citationCount |-> None]

S2Papers == {PaperFull, PaperNullAuthors}

_semantic_scholar_paper_details_impl(paper_id, resp, m) ==
    LET m1 == _respect_rate_limit(m)
        m2 == Sent(m1, Request("semantic_scholar", "paper", [paper_id |-> paper_id]))
        r == http_get(resp)
    IN [out |-> IF r.ok THEN enhance_details(r.val) ELSE r, m |-> m2]

\* the first exception raised while building a list element by element, or the list
all_or_first_raise(outs) ==
    IF \E i \in 1..Len(outs) : ~outs[i].ok
    THEN outs[CHOOSE i \in 1..Len(outs) :
                 ~outs[i].ok /\ \A j \in 1..(i - 1) : outs[j].ok]
    ELSE Return([i \in 1..Len(outs) |-> outs[i].val])

\* a faulty variant of citation_count: a missing or null count taken as 1
citation_count_or_one(p) ==
    IF truthy_int(get(p, "citationCount")) THEN Val(p["citationCount"]) ELSE 1

\* (p.get("citationCount") or 0)
citation_count(p) ==
    IF truthy_int(get(p, "citationCount")) THEN Val(p["citationCount"]) ELSE 0

\* the JSON bodies a paper search is answered with: "data" may be absent
S2SearchBodies ==
    { [total |-> 0], [total |-> 1, data |-> <<PaperFull>>],
      [total |-> 1, data |-> <<PaperNullAuthors>>] }

_semantic_scholar_search_impl(query, limit, year_range, min_citations, fields_of_study, resp, m) ==
    LET m1 == _respect_rate_limit(m)
        params == Spread(Spread([query |-> query, limit |-> limit],
                                IF ~IsNone(year_range) /\ Val(year_range) # ""
                                THEN [year |-> Val(year_range)] ELSE <<>>),
                         IF ~IsNone(fields_of_study) /\ Len(Val(fields_of_study)) > 0
                         THEN [fieldsOfStudy |-> Val(fields_of_study)] ELSE <<>>)
        m2 == Sent(m1, Request("semantic_scholar", "paper/search", params))
        r == http_get(resp)
        data == IF "data" \in DOMAIN r.val THEN r.val["data"] ELSE <<>>
        papers == IF ~IsNone(min_citations)
                  THEN SelectSeq(data, LAMBDA p : citation_count(p) >= Val(min_citations))
                  ELSE data
    IN [out |-> IF r.ok
                THEN all_or_first_raise([i \in 1..Len(papers) |-> enhance_search(papers[i])])
                ELSE r,
        m |-> m2]

---------------------------------------------------------------------------
(* PubMed *)

\* "articles at once": pmids[:10]
PubmedBatch == 10

P1 == <<"1", "0", "0", "0", "0", "0", "1">>
P2 == <<"1", "0", "0", "0", "0", "1", "0">>

\* A <PubmedArticle> element.  An optional child element is None when absent
\* and carries its text otherwise ("" for an empty element).
Article(pmid, authors) ==
    [pmid |-> pmid, title |-> Some("T"), abstract |-> Some("Abs"),
     authors |-> authors, journal |-> Some("J"), year |-> Some("2020"),
     ids |-> <<[IdType |-> "pubmed", text |-> "1"], [IdType |-> "doi", text |-> "10.1/a"]>>,
     keywords |-> <<"k">>]

OneAuthor == <<[LastName |-> Some("L"), ForeName |-> Some("F")]>>

\* f"{fore_name.text} {last_name.text}" for the authors that have both names
article_authors(authors) ==
    LET named == SelectSeq(authors, LAMBDA a :
                     truthy_str(a.LastName) /\ truthy_str(a.ForeName))
    IN [i \in 1..Len(named) |-> <<Val(named[i].ForeName), " ", Val(named[i].LastName)>>]

\* the text of the last ArticleId whose IdType is "doi" and whose text is not empty
article_doi(ids) ==
    LET dois == SelectSeq(ids, LAMBDA e : e.IdType = "doi" /\ e.text # "")
    IN IF Len(dois) = 0 THEN "" ELSE dois[Len(dois)].text

\* article_data of one <PubmedArticle> that has a PMID
article_data(a) ==
    [pmid |-> Val(a.pmid),
     title |-> IF IsNone(a.title) THEN "" ELSE Val(a.title),
     abstract |-> IF truthy_str(a.abstract) THEN Val(a.abstract) ELSE "",
     authors |-> article_authors(a.authors),
     journal |-> IF truthy_str(a.journal) THEN Val(a.journal) ELSE "",
     year |-> IF truthy_str(a.year) THEN Val(a.year) ELSE "",
     doi |-> article_doi(a.ids),
     keywords |-> SelectSeq(a.keywords, LAMBDA k : k # "")]

\* the dict built by the loop over root.findall(".//PubmedArticle"): elements
\* without a PMID are skipped, a later element replaces an earlier one of the
\* same PMID
parse_articles(elems) ==
    LET with_pmid == SelectSeq(elems, LAMBDA a : ~IsNone(a.pmid))
        keys == {Val(with_pmid[i].pmid) : i \in 1..Len(with_pmid)}
        last(k) == CHOOSE i \in 1..Len(with_pmid) :
                      /\ Val(with_pmid[i].pmid) = k
                      /\ \A j \in (i + 1)..Len(with_pmid) : Val(with_pmid[j].pmid) # k
    IN [k \in keys |-> article_data(with_pmid[last(k)])]

\* the keys of that dict in insertion order: each PMID at its first occurrence
parse_order(elems) ==
    LET with_pmid == SelectSeq(elems, LAMBDA a : ~IsNone(a.pmid))
        firsts == {i \in 1..Len(with_pmid) :
                     \A j \in 1..(i - 1) : with_pmid[j].pmid # with_pmid[i].pmid}
        nth(k) == CHOOSE i \in firsts : Cardinality({j \in firsts : j <= i}) = k
    IN [k \in 1..Cardinality(firsts) |-> Val(with_pmid[nth(k)].pmid)]

\* a faulty variant of _pubmed_fetch_impl: every PMID is put in the request
_pubmed_fetch_impl_all_ids(pmids, resp, m) ==
    IF Len(pmids) = 0 THEN [out |-> Return(<<>>), m |-> m]
    ELSE LET m2 == Sent(m, Request("pubmed", "efetch", [id |-> pmids]))
             r == http_get(resp)
         IN [out |-> IF r.ok THEN Return(parse_articles(r.val)) ELSE r, m |-> m2]

_pubmed_fetch_impl(pmids, resp, m) ==
    IF Len(pmids) = 0 THEN [out |-> Return(<<>>), m |-> m]
    ELSE LET m2 == Sent(m, Request("pubmed", "efetch", [id |-> Take(pmids, PubmedBatch)]))
             r == http_get(resp)
         IN [out |-> IF r.ok THEN Return(parse_articles(r.val)) ELSE r, m |-> m2]

\* one element of articles_list
search_record(pmid, article) ==
    [pmid |-> pmid, title |-> article.title, authors |-> article.authors,
     author_list |-> author_list(article.authors, Len(article.authors)),
     journal |-> article.journal, year |-> article.year, doi |-> article.doi,
     abstract |-> article.abstract, keywords |-> article.keywords]

\* a faulty variant of articles_list: the records in the order of the fetched dict
articles_list_fetch_order(pmids, articles_dict, order) ==
    LET found == SelectSeq(order, LAMBDA p : \E i \in 1..Len(pmids) : pmids[i] = p)
    IN [i \in 1..Len(found) |-> search_record(found[i], articles_dict[found[i]])]

\* articles_list: "for pmid in pmids: if pmid in articles_dict: append"
articles_list(pmids, articles_dict, order) ==
    LET found == SelectSeq(pmids, LAMBDA p : p \in DOMAIN articles_dict)
    IN [i \in 1..Len(found) |-> search_record(found[i], articles_dict[found[i]])]

_pubmed_search_impl(query, max_results, return_details, esearch, efetch, m) ==
    LET m1 == Sent(m, Request("pubmed", "esearch", [term |-> query, retmax |-> max_results]))
        r == http_get(esearch)
        pmids == r.val
        f == _pubmed_fetch_impl(pmids, efetch, m1)
    IN IF ~r.ok THEN [out |-> r, m |-> m1]
       ELSE IF ~return_details \/ Len(pmids) = 0 THEN [out |-> Return(pmids), m |-> m1]
       ELSE IF ~f.out.ok THEN f
       ELSE [out |-> Return(articles_list(pmids, f.out.val, parse_order(efetch.payload))),
             m |-> f.m]

\* one element of summaries; abstract_snippet is left out (nothing here reads it)
summary_of(pmid, data) ==
    [pmid |-> pmid, title |-> data.title,
     authors |-> author_list(data.authors, Len(data.authors)),
     journal |-> <<data.journal, " (", data.year, ")">>]

\* summaries follow articles.items(): the order in which the keys were inserted
_pubmed_summary_impl(pmids, resp, m) ==
    LET f == _pubmed_fetch_impl(pmids, resp, m)
        order == IF Len(pmids) = 0 THEN <<>> ELSE parse_order(resp.payload)
    IN IF ~f.out.ok THEN f
       ELSE [out |-> Return([i \in 1..Len(order) |-> summary_of(order[i], f.out.val[order[i]])]),
             m |-> f.m]

---------------------------------------------------------------------------
(* arXiv *)

\* An <entry> of the Atom feed: the path segments of its <id>, its <link>s
\* and its optional <arxiv:doi>.
Entry1 ==
    [id |-> <<"http:", "", "arxiv.org", "abs", "1.1v1">>, title |-> "T", summary |-> "S",
     authors |-> <<"A">>, published |-> "2020", updated |-> "2021",
     categories |-> <<"cs.AI">>,
     links |-> <<[type |-> "text/html", href |-> "abs"],
                 [type |-> "application/pdf", href |-> "pdf"]>>,
     doi |-> None]

ArxivFeeds == {<<>>, <<Entry1>>}

\* the href of the last link whose type is application/pdf
entry_pdf_url(links) ==
    LET pdfs == SelectSeq(links, LAMBDA l : l.type = "application/pdf")
    IN IF Len(pdfs) = 0 THEN None ELSE Some(pdfs[Len(pdfs)].href)

arxiv_paper_of(entry) ==
    [id |-> entry.id[Len(entry.id)], title |-> entry.title, summary |-> entry.summary,
     authors |-> entry.authors, published |-> entry.published, updated |-> entry.updated,
     categories |-> entry.categories, pdf_url |-> entry_pdf_url(entry.links),
     doi |-> entry.doi]

_arxiv_search_impl(query, max_results, sort_by, resp, m) ==
    LET m2 == Sent(m, Request("arxiv", "query",
                  [search_query |-> query, max_results |-> max_results,
                   sortBy |-> sort_by, sortOrder |-> "descending"]))
        r == http_get(resp)
    IN [out |-> IF r.ok
                THEN Return([i \in 1..Len(r.val) |-> arxiv_paper_of(r.val[i])])
                ELSE r,
        m |-> m2]

---------------------------------------------------------------------------
(* The cross-provider resolver: _get_paper_by_identifier_impl *)

\* a faulty variant of caught: the exception goes on to the caller
caught_reraise(r, identifier, kind) == r

\* "except Exception as e: return {error, identifier, id_type}" around the dispatch
caught(r, identifier, kind) ==
    IF r.out.ok THEN r
    ELSE [out |-> Return([error |-> str(r.out.exc), identifier |-> identifier,
                          id_type |-> kind]),
          m |-> r.m]

\* a faulty variant of doi_merge: the Semantic Scholar record is dropped
doi_merge_crossref_only(crossref_data, s2_data) ==
    [source |-> "crossref", crossref |-> crossref_data]

\* the merged result of the doi branch
doi_merge(crossref_data, s2_data) ==
    [source |-> "crossref+semantic_scholar", crossref |-> crossref_data,
     semantic_scholar |-> s2_data]

\* the bare "except:" of the doi branch: {"source": "crossref", **crossref_data}
doi_fallback(crossref_data) == Spread([source |-> "crossref"], crossref_data)

\* a faulty variant of dispatch_doi: Semantic Scholar is asked before CrossRef
dispatch_doi_s2_first(identifier, env, m) ==
    LET c0 == _crossref_doi_lookup_impl(identifier, env.crossref, m)
        s == _semantic_scholar_paper_details_impl(identifier, env.s2, m)
        c == _crossref_doi_lookup_impl(identifier, env.crossref, s.m)
    IN IF ~c0.out.ok THEN c0
       ELSE IF s.out.ok THEN [out |-> Return(doi_merge(c.out.val, s.out.val)), m |-> c.m]
       ELSE [out |-> Return(doi_fallback(c.out.val)), m |-> c.m]

\* the doi branch
dispatch_doi(identifier, env, m) ==
    LET c == _crossref_doi_lookup_impl(identifier, env.crossref, m)
        s == _semantic_scholar_paper_details_impl(identifier, env.s2, c.m)
    IN IF ~c.out.ok THEN c
       ELSE IF s.out.ok THEN [out |-> Return(doi_merge(c.out.val, s.out.val)), m |-> s.m]
       ELSE [out |-> Return(doi_fallback(c.out.val)), m |-> s.m]

\* a faulty variant of dispatch_pmid: no "if identifier in articles" test
dispatch_pmid_unchecked(identifier, env, m) ==
    LET f == _pubmed_fetch_impl(<<identifier>>, env.efetch, m)
    IN IF ~f.out.ok THEN f
       ELSE [out |-> Return(Spread([source |-> "pubmed"],
                        IF identifier \in DOMAIN f.out.val THEN f.out.val[identifier]
                        ELSE <<>>)),
             m |-> f.m]

\* the pmid branch
dispatch_pmid(identifier, env, m) ==
    LET f == _pubmed_fetch_impl(<<identifier>>, env.efetch, m)
    IN IF ~f.out.ok THEN f
       ELSE IF identifier \in DOMAIN f.out.val
       THEN [out |-> Return(Spread([source |-> "pubmed"], f.out.val[identifier])), m |-> f.m]
       ELSE [out |-> Raise("ValueError", <<"PMID ">> \o identifier \o <<" not found">>),
             m |-> f.m]

\* a faulty variant of dispatch_arxiv: the identifier itself is the search query
dispatch_arxiv_plain_query(identifier, env, m) ==
    LET a == _arxiv_search_impl(identifier, 1, "relevance", env.arxiv, m)
    IN IF ~a.out.ok THEN a
       ELSE IF Len(a.out.val) > 0
       THEN [out |-> Return(Spread([source |-> "arxiv"], a.out.val[1])), m |-> a.m]
       ELSE [out |-> Raise("ValueError",
                        <<"ArXiv paper ">> \o identifier \o <<" not found">>),
             m |-> a.m]

\* the arxiv branch
dispatch_arxiv(identifier, env, m) ==
    LET a == _arxiv_search_impl(<<"id:">> \o identifier, 1, "relevance", env.arxiv, m)
    IN IF ~a.out.ok THEN a
       ELSE IF Len(a.out.val) > 0
       THEN [out |-> Return(Spread([source |-> "arxiv"], a.out.val[1])), m |-> a.m]
       ELSE [out |-> Raise("ValueError",
                        <<"ArXiv paper ">> \o identifier \o <<" not found">>),
             m |-> a.m]

\* the s2 branch
dispatch_s2(identifier, env, m) ==
    LET s == _semantic_scholar_paper_details_impl(identifier, env.s2, m)
    IN IF ~s.out.ok THEN s
       ELSE [out |-> Return(Spread([source |-> "semantic_scholar"], s.out.val)), m |-> s.m]

_get_paper_by_identifier_impl(identifier, supplied, env, m) ==
    LET kind == effective_id_type(identifier, supplied)
        r == IF kind = "doi" THEN dispatch_doi(identifier, env, m)
             ELSE IF kind = "pmid" THEN dispatch_pmid(identifier, env, m)
             ELSE IF kind = "arxiv" THEN dispatch_arxiv(identifier, env, m)
             ELSE IF kind = "s2" THEN dispatch_s2(identifier, env, m)
             ELSE [out |-> Raise("ValueError", <<"Unknown identifier type: ", kind>>),
                   m |-> m]
    IN caught(r, identifier, kind)

---------------------------------------------------------------------------
(* The fan-out: _multi_database_search_impl *)

\* a faulty variant of DefaultDatabases: crossref left out
DefaultDatabases_no_crossref == <<"pubmed", "semantic_scholar", "arxiv">>

\* databases when the argument is None
DefaultDatabases == <<"pubmed", "semantic_scholar", "arxiv", "crossref">>

\* x in databases, for a list
in_list(x, l) == \E i \in 1..Len(l) : l[i] = x

\* a faulty variant of record: a failing provider also gets an empty list
record_both(s, key, errkey, r, value) ==
    [results |-> Spread(s.results,
                   IF r.out.ok THEN key :> value
                   ELSE (key :> <<>>) @@ (errkey :> str(r.out.exc))),
     m |-> r.m]

\* a faulty variant of record: a failure discards the results stored so far
record_reset(s, key, errkey, r, value) ==
    [results |-> IF r.out.ok THEN Spread(s.results, key :> value)
                 ELSE errkey :> str(r.out.exc),
     m |-> r.m]

\* one try/except block: results[key] = value, or in "except Exception as e"
\* results[key + "_error"] = str(e)
record(s, key, errkey, r, value) ==
    [results |-> Spread(s.results,
                   IF r.out.ok THEN key :> value ELSE errkey :> str(r.out.exc)),
     m |-> r.m]

\* results["pubmed"] = r, for the list a successful provider call returned
stored(s, key, errkey, r) ==
    record(s, key, errkey, r, IF r.out.ok THEN r.out.val ELSE <<>>)

\* results["crossref"] = crossref_result.get("items", [])
stored_items(s, key, errkey, r) ==
    record(s, key, errkey, r, IF r.out.ok THEN r.out.val.items ELSE <<>>)

\* the four "if <name> in databases" blocks, in the order of the code
block_pubmed(s, dbs, query, limit, env) ==
    IF in_list("pubmed", dbs)
    THEN stored(s, "pubmed", "pubmed_error",
                _pubmed_search_impl(query, limit, TRUE, env.esearch, env.efetch, s.m))
    ELSE s

block_semantic_scholar(s, dbs, query, limit, env) ==
    IF in_list("semantic_scholar", dbs)
    THEN stored(s, "semantic_scholar", "semantic_scholar_error",
                _semantic_scholar_search_impl(query, limit, None, None, None, env.s2, s.m))
    ELSE s

block_arxiv(s, dbs, query, limit, env) ==
    IF in_list("arxiv", dbs)
    THEN stored(s, "arxiv", "arxiv_error",
                _arxiv_search_impl(query, limit, "relevance", env.arxiv, s.m))
    ELSE s

block_crossref(s, dbs, query, limit, env) ==
    IF in_list("crossref", dbs)
    THEN stored_items(s, "crossref", "crossref_error",
                      _crossref_works_search_impl(query, limit, env.crossref, s.m))
    ELSE s

\* return results
returned(s) == [out |-> Return(s.results), m |-> s.m]

\* databases, after "if databases is None"
effective_databases(databases) ==
    IF IsNone(databases) THEN DefaultDatabases ELSE Val(databases)

\* a faulty variant of fan_out: the arxiv block runs before the
\* semantic_scholar block
fan_out_arxiv_first(dbs, query, limit, env, m) ==
    returned(
      block_crossref(
        block_semantic_scholar(
          block_arxiv(
            block_pubmed([results |-> <<>>, m |-> m], dbs, query, limit, env),
            dbs, query, limit, env),
          dbs, query, limit, env),
        dbs, query, limit, env))

fan_out(dbs, query, limit, env, m) ==
    returned(
      block_crossref(
        block_arxiv(
          block_semantic_scholar(
            block_pubmed([results |-> <<>>, m |-> m], dbs, query, limit, env),
            dbs, query, limit, env),
          dbs, query, limit, env),
        dbs, query, limit, env))

_multi_database_search_impl(query, databases, max_results_per_db, env, m) ==
    fan_out(effective_databases(databases), query, max_results_per_db, env, m)

---------------------------------------------------------------------------
(* The tool calls a client can make, and the answers the providers can give *)

IdDoi == <<"1", "0", ".", "1", "/", "a">>
IdArxiv == <<"1", ".", "1">>
IdS2 == <<"a">>

\* one identifier of each shape the classifier tells apart
Identifiers == {IdDoi, P1, IdArxiv, IdS2}

\* the id_type argument: absent, one of the four documented kinds, or another string
IdTypeArgs == {None} \cup {Some(k) : k \in {"doi", "pmid", "arxiv", "s2", "isbn"}}

Queries == {"q"}

\* max_results_per_db: the default and another value
Limits == {10, 2}

EfetchBodies ==
    { <<>>, <<Article(Some(P1), OneAuthor)>>, <<Article(Some(P2), OneAuthor)>>,
      <<Article(Some(P2), OneAuthor), Article(Some(P1), <<>>)>>,
      <<Article(None, OneAuthor)>> }

\* the id lists an esearch answers with, and the efetch answers that follow them
IdLists == {<<>>, <<P1, P2>>}

SearchEfetchBodies ==
    { <<>>, <<Article(Some(P1), OneAuthor)>>,
      <<Article(Some(P2), OneAuthor), Article(Some(P1), <<>>)>> }

OkOf(S) == {Ok(x) : x \in S}

NoEnv == [crossref |-> Unused, s2 |-> Unused, esearch |-> Unused, efetch |-> Unused,
          arxiv |-> Unused]

\* the answers to the requests the resolver can make for an identifier of this kind
ResolverEnvs(kind) ==
    IF kind = "doi"
    THEN {[NoEnv EXCEPT !.crossref = c] : c \in Failures}
         \cup {[NoEnv EXCEPT !.crossref = c, !.s2 = s] :
                 c \in OkOf(CrossrefWorks), s \in Failures \cup OkOf(S2Papers)}
    ELSE IF kind = "pmid"
    THEN {[NoEnv EXCEPT !.efetch = f] : f \in Failures \cup OkOf(EfetchBodies)}
    ELSE IF kind = "arxiv"
    THEN {[NoEnv EXCEPT !.arxiv = a] : a \in Failures \cup OkOf(ArxivFeeds)}
    ELSE IF kind = "s2"
    THEN {[NoEnv EXCEPT !.s2 = s] : s \in Failures \cup OkOf(S2Papers)}
    ELSE {NoEnv}

Providers == {"pubmed", "semantic_scholar", "arxiv", "crossref"}

\* names a client may put in databases: the four providers and one that is none of them
DatabaseNames == Providers \cup {"reddit"}

DatabasesArgs == {None} \cup {Some(l) : l \in SeqsUpTo(DatabaseNames, MaxDbLen)}

\* the answers to the searches of the requested providers
PubmedEnvs ==
    {[esearch |-> e, efetch |-> Unused] : e \in Failures \cup {Ok(<<>>)}}
    \cup {[esearch |-> Ok(l), efetch |-> f] :
            l \in IdLists \ {<<>>}, f \in Failures \cup OkOf(SearchEfetchBodies)}

FanoutEnvs(dbs) ==
    {[crossref |-> c, s2 |-> s, esearch |-> p.esearch, efetch |-> p.efetch, arxiv |-> a] :
        p \in IF in_list("pubmed", dbs) THEN PubmedEnvs
              ELSE {[esearch |-> Unused, efetch |-> Unused]},
        s \in IF in_list("semantic_scholar", dbs) THEN Failures \cup OkOf(S2SearchBodies)
              ELSE {Unused},
        a \in IF in_list("arxiv", dbs) THEN Failures \cup OkOf(ArxivFeeds) ELSE {Unused},
        c \in IF in_list("crossref", dbs) THEN Failures \cup OkOf(CrossrefSearchBodies)
              ELSE {Unused}}

NoCall == [op |-> "none"]
NoResult == <<>>
NoThreads == <<>>

\* the call returns (or raises) r, having run on machine r.m
Finish(c, r, kind) ==
    /\ r.m.now <= MaxTime
    /\ now' = r.m.now
    /\ _last_call' = r.m.last
    /\ log' = r.m.log
    /\ call' = c
    /\ id_type' = kind
    /\ pc' = IF r.out.ok THEN "returned" ELSE "raised"
    /\ result' = IF r.out.ok THEN r.out.val ELSE r.out.exc
    /\ UNCHANGED <<th, permits>>

get_paper_by_identifier ==
    /\ pc = "idle"
    /\ \E identifier \in Identifiers, supplied \in IdTypeArgs :
         \E env \in ResolverEnvs(effective_id_type(identifier, supplied)) :
            Finish([op |-> "get_paper_by_identifier", identifier |-> identifier,
                    id_type |-> supplied, env |-> env],
                   _get_paper_by_identifier_impl(identifier, supplied, env,
                                                 Machine(now, _last_call, <<>>)),
                   effective_id_type(identifier, supplied))

multi_database_search ==
    /\ pc = "idle"
    /\ \E query \in Queries, databases \in DatabasesArgs, max_results_per_db \in Limits :
         \E env \in FanoutEnvs(effective_databases(databases)) :
            Finish([op |-> "multi_database_search", query |-> query,
                    databases |-> databases, max_results_per_db |-> max_results_per_db,
                    env |-> env],
                   _multi_database_search_impl(query, databases, max_results_per_db, env,
                                               Machine(now, _last_call, <<>>)),
                   "")

\* the result goes back to the client; the server waits for the next call
Respond ==
    /\ pc \in {"returned", "raised"}
    /\ pc' = "idle"
    /\ call' = NoCall
    /\ result' = NoResult
    /\ log' = <<>>
    /\ id_type' = ""
    /\ UNCHANGED <<now, _last_call, th, permits>>

\* time passes between calls
Tick ==
    /\ pc = "idle"
    /\ now < MaxTime
    /\ now' = now + 1
    /\ UNCHANGED <<_last_call, pc, call, result, log, id_type, th, permits>>

\* The process starts with _last_call = 0.0 and a clock that reads seconds since
\* 1970: more than 1/RATE_LIMIT past _last_call.
Init ==
    /\ now = Interval
    /\ _last_call = 0
    /\ pc = "idle"
    /\ call = NoCall
    /\ result = NoResult
    /\ log = <<>>
    /\ id_type = ""
    /\ th = NoThreads
    /\ permits = <<>>

Next ==
    \/ get_paper_by_identifier
    \/ multi_database_search
    \/ Respond
    \/ Tick

Spec == Init /\ [][Next]_vars

---------------------------------------------------------------------------
(* What the claims speak of, stated on the call, the providers' answers and *)
(* the result, without the operators that model the code                    *)

Range(s) == {s[i] : i \in 1..Len(s)}

StartsWith10Dot(s) == Len(s) >= 3 /\ s[1] = "1" /\ s[2] = "0" /\ s[3] = "."
AllDigits(s) == Len(s) >= 1 /\ Range(s) \subseteq Digits

\* the classifier as the specification words it: four rules, first match wins
RuleDoi(s) == StartsWith10Dot(s) /\ "/" \in Range(s)
RulePmid(s) == AllDigits(s) /\ Len(s) >= 7
RuleArxiv(s) == "." \in Range(s) /\ Range(s) \cap Digits # {}

KindByRules(s) ==
    CASE RuleDoi(s) -> "doi"
      [] ~RuleDoi(s) /\ RulePmid(s) -> "pmid"
      [] ~RuleDoi(s) /\ ~RulePmid(s) /\ RuleArxiv(s) -> "arxiv"
      [] OTHER -> "s2"

\* s matches ^10\.[^/]+/.+$
MatchesDoiPattern(s) ==
    /\ StartsWith10Dot(s)
    /\ \E i \in 5..(Len(s) - 1) : s[i] = "/" /\ \A j \in 4..(i - 1) : s[j] # "/"

IsResolverCall == call.op = "get_paper_by_identifier"
IsFanoutCall == call.op = "multi_database_search"

\* the supplied kind, or the classified one
CallKind == IF IsNone(call.id_type) THEN KindByRules(call.identifier) ELSE Val(call.id_type)

Answered(resp) == resp.kind = "ok"

\* a paper object the Semantic Scholar adapters can enrich: its authors member
\* is not null
Enrichable(paper) == "authors" \notin DOMAIN paper \/ ~IsNone(paper["authors"])

S2DetailsSucceed == Answered(call.env.s2) /\ Enrichable(call.env.s2.payload)

\* the PMIDs of the articles an efetch answer holds
AnsweredPmids(resp) ==
    {Val(resp.payload[i].pmid) : i \in {j \in 1..Len(resp.payload) : ~IsNone(resp.payload[j].pmid)}}

PmidNotFound ==
    /\ CallKind = "pmid"
    /\ Answered(call.env.efetch)
    /\ call.identifier \notin AnsweredPmids(call.env.efetch)

ArxivNotFound ==
    /\ CallKind = "arxiv"
    /\ Answered(call.env.arxiv)
    /\ Len(call.env.arxiv.payload) = 0

\* the dispatch does not produce a record
DispatchFails ==
    \/ CallKind = "doi" /\ ~Answered(call.env.crossref)
    \/ CallKind = "pmid" /\ ~Answered(call.env.efetch)
    \/ PmidNotFound
    \/ CallKind = "arxiv" /\ ~Answered(call.env.arxiv)
    \/ ArxivNotFound
    \/ CallKind = "s2" /\ ~S2DetailsSucceed
    \/ CallKind \notin {"doi", "pmid", "arxiv", "s2"}

IsStructuredError ==
    /\ DOMAIN result = {"error", "identifier", "id_type"}
    /\ result.identifier = call.identifier
    /\ result.id_type = CallKind

\* C1: get_paper_by_identifier returns a value and never raises, whatever the
\* identifier, the id_type and the outcome of the provider calls; when the
\* dispatch fails the value is exactly {error, identifier, id_type}, with the
\* identifier as given and the supplied or classified kind.
C1_ResolverNeverRaises ==
    IsResolverCall =>
        /\ pc = "returned"
        /\ DispatchFails => IsStructuredError

C1_Witness ==
    /\ IsResolverCall
    /\ pc = "returned"
    /\ call.env.crossref.kind = "http_error"
    /\ IsNone(call.id_type)
    /\ DispatchFails

\* C7: a doi whose CrossRef lookup and Semantic Scholar lookup both succeed
\* resolves to exactly {source, crossref, semantic_scholar}, with source
\* "crossref+semantic_scholar", the CrossRef record and the Semantic Scholar
\* record (which carries every member of the provider's paper object).
C7_DoiMerged ==
    (IsResolverCall /\ CallKind = "doi" /\ Answered(call.env.crossref) /\ S2DetailsSucceed) =>
        /\ pc = "returned"
        /\ DOMAIN result = {"source", "crossref", "semantic_scholar"}
        /\ result.source = "crossref+semantic_scholar"
        /\ result.crossref = call.env.crossref.payload
        /\ \A k \in DOMAIN call.env.s2.payload :
              /\ k \in DOMAIN result.semantic_scholar
              /\ result.semantic_scholar[k] = call.env.s2.payload[k]

C7_Witness ==
    /\ IsResolverCall
    /\ call.identifier = IdDoi
    /\ IsNone(call.id_type)
    /\ Answered(call.env.crossref)
    /\ S2DetailsSucceed
    /\ pc = "returned"

\* C8: a doi whose CrossRef lookup succeeds and whose Semantic Scholar lookup
\* fails resolves, for every CrossRef record, to a mapping with source
\* "crossref" that carries the record's members at top level and has neither a
\* semantic_scholar nor an error key.
C8_DoiFallback ==
    (IsResolverCall /\ CallKind = "doi" /\ Answered(call.env.crossref) /\ ~S2DetailsSucceed) =>
        /\ pc = "returned"
        /\ result.source = "crossref"
        /\ \A k \in DOMAIN call.env.crossref.payload \ {"source"} :
              k \in DOMAIN result /\ result[k] = call.env.crossref.payload[k]
        /\ "semantic_scholar" \notin DOMAIN result
        /\ "error" \notin DOMAIN result

\* C9: a pmid absent from the mapping of the detail fetch, and an arxiv
\* identifier whose search has no entry, reach the caller as the structured
\* error with a "not found" message, never as a record with a source.
C9_NotFound ==
    (IsResolverCall /\ (PmidNotFound \/ ArxivNotFound)) =>
        /\ pc = "returned"
        /\ IsStructuredError
        /\ result.error[Len(result.error)] = " not found"
        /\ "source" \notin DOMAIN result

C9_Witness ==
    /\ IsResolverCall
    /\ PmidNotFound
    /\ P2 \in AnsweredPmids(call.env.efetch)
    /\ pc = "returned"

---------------------------------------------------------------------------
(* The fan-out claims *)

ErrorKey(name) ==
    CASE name = "pubmed" -> "pubmed_error"
      [] name = "semantic_scholar" -> "semantic_scholar_error"
      [] name = "arxiv" -> "arxiv_error"
      [] name = "crossref" -> "crossref_error"
      [] name = "reddit" -> "reddit_error"

\* the provider names the call asks for: the databases list, or the four
\* providers when there is none
RequestedNames ==
    IF IsNone(call.databases) THEN Providers ELSE Range(Val(call.databases))

\* the search of this provider fails: a request of it fails, or its answer
\* cannot be processed
SearchFails(p) ==
    CASE p = "pubmed" ->
            \/ ~Answered(call.env.esearch)
            \/ Len(call.env.esearch.payload) > 0 /\ ~Answered(call.env.efetch)
      [] p = "semantic_scholar" ->
            \/ ~Answered(call.env.s2)
            \/ /\ "data" \in DOMAIN call.env.s2.payload
               /\ \E i \in 1..Len(call.env.s2.payload["data"]) :
                     ~Enrichable(call.env.s2.payload["data"][i])
      [] p = "arxiv" -> ~Answered(call.env.arxiv)
      [] p = "crossref" -> ~Answered(call.env.crossref)

RequestsOf(events) == SelectSeq(events, LAMBDA e : e.ev = "request")

Queried(p) == \E i \in 1..Len(log) : log[i].ev = "request" /\ log[i].provider = p

IsList(v) == DOMAIN v = 1..Len(v)

\* C2: in multi_database_search the failure of a provider's search is recorded
\* under "<provider>_error" and stops no other provider: whatever subset of
\* the requested providers fails, each requested provider is queried, each
\* one that does not fail appears under its own name with a list, and each
\* failing one appears only under "<provider>_error".
C2_FailureIsolated ==
    IsFanoutCall =>
        /\ pc = "returned"
        /\ \A p \in Providers \cap RequestedNames :
              /\ Queried(p)
              /\ IF SearchFails(p)
                 THEN ErrorKey(p) \in DOMAIN result /\ p \notin DOMAIN result
                 ELSE /\ p \in DOMAIN result
                      /\ ErrorKey(p) \notin DOMAIN result
                      /\ IsList(result[p])

\* four providers asked, the second one failing, the other three answering
C2_Witness ==
    /\ IsFanoutCall
    /\ pc = "returned"
    /\ IsNone(call.databases)
    /\ SearchFails("semantic_scholar")
    /\ \A p \in Providers \ {"semantic_scholar"} : ~SearchFails(p)
    /\ DOMAIN result = {"pubmed", "semantic_scholar_error", "arxiv", "crossref"}

ExactlyOneKey(name) ==
    (name \in DOMAIN result) # (ErrorKey(name) \in DOMAIN result)

\* C3, as claimed: for every name in the requested databases list the result
\* holds exactly one of "<name>" and "<name>_error".
C3_ExactlyOneKeyPerName ==
    IsFanoutCall => \A name \in RequestedNames : ExactlyOneKey(name)

\* C3, amended: for every name in the requested list that is one of pubmed,
\* semantic_scholar, arxiv and crossref (and for these four when there is no
\* list) the result holds exactly one of "<name>" and "<name>_error"; a name
\* that is none of the four contributes neither key.
C3_ExactlyOneKeyPerProvider ==
    IsFanoutCall =>
        \A name \in RequestedNames :
            IF name \in Providers THEN ExactlyOneKey(name)
            ELSE name \notin DOMAIN result /\ ErrorKey(name) \notin DOMAIN result

C3_Witness ==
    /\ IsFanoutCall
    /\ pc = "returned"
    /\ call.databases = Some(<<"reddit", "arxiv">>)
    /\ DOMAIN result = {"arxiv_error"}

\* the limit a search request carries
LimitOf(req) ==
    CASE req.endpoint = "esearch" -> req.params.retmax
      [] req.endpoint = "paper/search" -> req.params.limit
      [] req.endpoint = "query" -> req.params.max_results
      [] req.endpoint = "works" -> req.params.rows

SearchEndpoints == {"esearch", "paper/search", "query", "works"}

\* C10: without a databases argument exactly the four providers pubmed,
\* semantic_scholar, arxiv and crossref are queried, each search with the
\* per-provider limit, nothing is sent to Reddit, and the keys of the result
\* are among the four names and their "_error" variants.
C10_DefaultProviders ==
    (IsFanoutCall /\ IsNone(call.databases)) =>
        LET reqs == RequestsOf(log)
        IN /\ {reqs[i].provider : i \in 1..Len(reqs)} = Providers
           /\ \A e \in SearchEndpoints :
                 Cardinality({i \in 1..Len(reqs) : reqs[i].endpoint = e}) = 1
           /\ \A i \in 1..Len(reqs) :
                 reqs[i].endpoint \in SearchEndpoints =>
                     LimitOf(reqs[i]) = call.max_results_per_db
           /\ DOMAIN result \subseteq Providers \cup {ErrorKey(p) : p \in Providers}

C10_Witness ==
    /\ IsFanoutCall
    /\ pc = "returned"
    /\ IsNone(call.databases)
    /\ call.max_results_per_db = 2
    /\ DOMAIN result = Providers
    /\ Len(RequestsOf(log)) = 5

---------------------------------------------------------------------------
(* The classifier on its own: every identifier up to MaxIdLen characters,   *)
(* with no id_type given, through the auto-detection block                  *)

InitClassifier ==
    /\ now = Interval
    /\ _last_call = 0
    /\ pc = "called"
    /\ call \in {[op |-> "get_paper_by_identifier", identifier |-> s, id_type |-> None] :
                   s \in SeqsUpTo(Chars, MaxIdLen)}
    /\ result = NoResult
    /\ log = <<>>
    /\ id_type = ""
    /\ th = NoThreads
    /\ permits = <<>>

\* the "if id_type is None" block
auto_detect ==
    /\ pc = "called"
    /\ id_type' = effective_id_type(call.identifier, call.id_type)
    /\ pc' = "detected"
    /\ UNCHANGED <<now, _last_call, call, result, log, th, permits>>

NextClassifier == auto_detect

SpecClassifier == InitClassifier /\ [][NextClassifier]_vars

\* C4: with no id_type the classifier applies its four rules in order, first
\* match wins: doi if the string starts with "10." and contains "/", else pmid
\* if it is all digits and at least 7 long, else arxiv if it contains "." and
\* a digit, else s2.  So every string matching ^10\.[^/]+/.+$ is doi, every
\* all-digit string of length >= 7 is pmid, and no shorter all-digit string is.
C4_Classifier ==
    pc = "detected" =>
        /\ id_type = KindByRules(call.identifier)
        /\ MatchesDoiPattern(call.identifier) => id_type = "doi"
        /\ (AllDigits(call.identifier) /\ Len(call.identifier) >= 7) => id_type = "pmid"
        /\ (AllDigits(call.identifier) /\ Len(call.identifier) < 7) => id_type # "pmid"

\* a string that the doi rule and the arxiv rule both match, classified
C4_Witness ==
    /\ pc = "detected"
    /\ call.identifier = IdDoi
    /\ MatchesDoiPattern(call.identifier)
    /\ RuleArxiv(call.identifier)
    /\ id_type = "doi"

---------------------------------------------------------------------------
(* The rate limiter step by step.  A thread serving a Semantic Scholar      *)
(* operation passes through _respect_rate_limit and then sends its request; *)
(* the clock may advance between any two steps, and time.sleep(wait)        *)
(* returns no earlier than wait after it was called.                        *)

Idle == [pc |-> "idle", wait |-> 0, wake |-> 0]

InThreads(T) == {t \in T : th[t].pc # "idle"}

\* a Semantic Scholar operation is called on thread t
s2_call(T, t) ==
    /\ th[t].pc = "idle"
    /\ Len(permits) + Cardinality(InThreads(T)) < MaxPermits
    /\ th' = [th EXCEPT ![t].pc = "read"]
    /\ UNCHANGED <<now, _last_call, pc, call, result, log, id_type, permits>>

\* wait = 1.0 / RATE_LIMIT - (time.time() - _last_call); if wait > 0
read_clock(t) ==
    /\ th[t].pc = "read"
    /\ th' = [th EXCEPT ![t].wait = wait_for(now, _last_call),
                        ![t].pc = IF wait_for(now, _last_call) > 0 THEN "sleep" ELSE "write"]
    /\ UNCHANGED <<now, _last_call, pc, call, result, log, id_type, permits>>

\* time.sleep(wait) is entered
sleep(t) ==
    /\ th[t].pc = "sleep"
    /\ th' = [th EXCEPT ![t].wake = now + th[t].wait, ![t].pc = "sleeping"]
    /\ UNCHANGED <<now, _last_call, pc, call, result, log, id_type, permits>>

\* time.sleep(wait) returns
wake_up(t) ==
    /\ th[t].pc = "sleeping"
    /\ now >= th[t].wake
    /\ th' = [th EXCEPT ![t].pc = "write"]
    /\ UNCHANGED <<now, _last_call, pc, call, result, log, id_type, permits>>

\* _last_call = time.time()
write_clock(t) ==
    /\ th[t].pc = "write"
    /\ _last_call' = now
    /\ permits' = Append(permits, now)
    /\ th' = [th EXCEPT ![t].pc = "send"]
    /\ UNCHANGED <<now, pc, call, result, log, id_type>>

\* the request of the operation goes out and the operation ends
send(t) ==
    /\ th[t].pc = "send"
    /\ th' = [th EXCEPT ![t] = Idle]
    /\ UNCHANGED <<now, _last_call, pc, call, result, log, id_type, permits>>

clock_tick ==
    /\ now < MaxTime
    /\ now' = now + 1
    /\ UNCHANGED <<_last_call, pc, call, result, log, id_type, th, permits>>

InitLimiter(T) ==
    /\ now = Interval
    /\ _last_call = 0
    /\ pc = "idle"
    /\ call = NoCall
    /\ result = NoResult
    /\ log = <<>>
    /\ id_type = ""
    /\ th = [t \in T |-> Idle]
    /\ permits = <<>>

\* one caller, its operations one after another
SerialThreads == {1}

InitSerial == InitLimiter(SerialThreads)

NextSerial ==
    \/ \E t \in SerialThreads :
          \/ s2_call(SerialThreads, t)
          \/ read_clock(t)
          \/ sleep(t)
          \/ wake_up(t)
          \/ write_clock(t)
          \/ send(t)
    \/ clock_tick

SpecSerial == InitSerial /\ [][NextSerial]_vars

\* two calls served at the same time
ConcurrentThreads == {1, 2}

InitConcurrent == InitLimiter(ConcurrentThreads)

NextConcurrent ==
    \/ \E t \in ConcurrentThreads :
          \/ s2_call(ConcurrentThreads, t)
          \/ read_clock(t)
          \/ sleep(t)
          \/ wake_up(t)
          \/ write_clock(t)
          \/ send(t)
    \/ clock_tick

SpecConcurrent == InitConcurrent /\ [][NextConcurrent]_vars

Spaced == \A i \in 1..(Len(permits) - 1) : permits[i + 1] - permits[i] >= Interval

\* C5: for Semantic Scholar operations issued one after another by a single
\* caller, the values written to the last-call timestamp by two consecutive
\* calls differ by at least 1/RATE_LIMIT = 1 second.
C5_SerialCallsSpaced == Spaced

\* the second call came straight after the first and slept the whole interval
C5_Witness ==
    /\ Len(permits) >= 2
    /\ permits[2] = permits[1] + Interval
    /\ th[1].wait = Interval

\* C6: when two Semantic Scholar calls run concurrently, the read of the
\* last-call timestamp and the write of its new value are one critical
\* section, so that no interleaving lets two calls compute their wait from the
\* same stale timestamp: any two permitted calls are at least 1 second apart.
C6_ConcurrentCallsSpaced ==
    \A i \in 1..Len(permits) : \A j \in (i + 1)..Len(permits) :
        permits[j] - permits[i] >= Interval

---------------------------------------------------------------------------
(* The adapters that are tools themselves *)

\* semantic_scholar_citations, _references, _author_search and _author_papers:
\* _respect_rate_limit(), one GET, return r.json().get("data", [])
s2_data(endpoint, params, resp, m) ==
    LET m1 == _respect_rate_limit(m)
        m2 == Sent(m1, Request("semantic_scholar", endpoint, params))
        r == http_get(resp)
    IN [out |-> IF r.ok THEN Return(get_default(r.val, "data", <<>>)) ELSE r, m |-> m2]

\* arxiv_paper
arxiv_paper_impl(arxiv_id, resp, m) ==
    LET a == _arxiv_search_impl(<<"id:">> \o arxiv_id, 1, "relevance", resp, m)
    IN IF ~a.out.ok THEN a
       ELSE IF Len(a.out.val) > 0 THEN [out |-> Return(a.out.val[1]), m |-> a.m]
       ELSE [out |-> Raise("ValueError", <<"ArXiv paper ">> \o arxiv_id \o <<" not found">>),
             m |-> a.m]

\* crossref_journal_works: message.title, message.total-results, message.items
crossref_journal_works_impl(issn, rows, resp, m) ==
    LET r == http_get(resp)
    IN [out |-> IF r.ok
                THEN Return([journal_title |-> get(r.val, "title"),
                             total_results |-> r.val.total_results, items |-> r.val.items])
                ELSE r,
        m |-> Sent(m, Request("crossref", "journals/works", [issn |-> issn, rows |-> rows]))]

---------------------------------------------------------------------------
(* Reddit *)

\* the POST that mints a bearer token; nothing keeps the token
_reddit_token(resp, m) ==
    [out |-> http_get(resp), m |-> Sent(m, Request("reddit", "access_token", <<>>))]

\* reddit_search and reddit_subreddit_search: the token is minted while the
\* headers are built, then one GET; [c["data"] for c in children]
reddit_listing(endpoint, params, env, m) ==
    LET t == _reddit_token(env.token, m)
        m2 == Sent(t.m, Request("reddit", endpoint, params))
        r == http_get(env.reddit)
    IN IF ~t.out.ok THEN t
       ELSE [out |-> IF r.ok THEN Return([i \in 1..Len(r.val) |-> r.val[i].data]) ELSE r,
             m |-> m2]

\* params of reddit_search: "type" is sent unless search_type is "all"
reddit_search_params(query, limit, sort, search_type) ==
    Spread([q |-> query, limit |-> limit, sort |-> sort],
           IF search_type # "all" THEN [type |-> search_type] ELSE <<>>)

(* The comment tree of a submission, data[1]["data"]["children"] and below.  *)
(* Its nodes are numbered in document order; depth[i] is the nesting depth   *)
(* of node i (1 for a top-level item) and kind[i] its "kind".  The parent    *)
(* of a node is the nearest earlier node one level up; a comment's replies   *)
(* are its children in document order ("" when it has none).                 *)

MaxNodes == 4

Kinds == {"t1", "more"}

parent(f, i) ==
    IF f.depth[i] = 1 THEN 0
    ELSE CHOOSE j \in 1..(i - 1) :
            /\ f.depth[j] = f.depth[i] - 1
            /\ \A k \in (j + 1)..(i - 1) : f.depth[k] >= f.depth[i]

\* the children of node p (of the listing itself when p = 0), in document order
children(f, p) ==
    SelectSeq([i \in 1..Len(f.depth) |-> i], LAMBDA i : parent(f, i) = p)

\* well-nested, and only a comment has replies
IsForest(f) ==
    /\ Len(f.depth) > 0 => f.depth[1] = 1
    /\ \A i \in 1..(Len(f.depth) - 1) : f.depth[i + 1] <= f.depth[i] + 1
    /\ \A i \in 1..Len(f.depth) : parent(f, i) # 0 => f.kind[parent(f, i)] = "t1"

DepthSeqs(n) ==
    {d \in [1..n -> 1..n] : /\ n > 0 => d[1] = 1
                            /\ \A i \in 1..(n - 1) : d[i + 1] <= d[i] + 1}

Forests ==
    UNION {{f \in {[depth |-> d, kind |-> k] : d \in DepthSeqs(n), k \in [1..n -> Kinds]} :
              IsForest(f)} : n \in 0..MaxNodes}

\* the dict appended for the comment of node i
comment_entry(i) ==
    [author |-> "u", body |-> "b", score |-> 1, created_utc |-> 0, id |-> i]

\* a faulty variant of extract_item: the replies are visited before the comment
\* itself is appended
extract_item_post_order(own, below) == below \o own

\* what one item of the loop adds: the comment, then what its replies add
extract_item(own, below) == own \o below

\* extract_comments(comment_data): the entries appended while it runs
RECURSIVE extract_comments(_, _)
extract_comments(f, comment_data) ==
    IF Len(comment_data) = 0 THEN <<>>
    ELSE LET item == Head(comment_data)
             replies == children(f, item)
         IN (IF f.kind[item] = "t1"
             THEN extract_item(<<comment_entry(item)>>,
                               IF Len(replies) > 0 THEN extract_comments(f, replies)
                               ELSE <<>>)
             ELSE <<>>)
            \o extract_comments(f, Tail(comment_data))

\* r.json() of the comments request: the submission listing and, when the
\* answer has a second listing, the comment tree
Submission == [title |-> "S", author |-> "u", score |-> 1, url |-> "l", selftext |-> ""]

CommentsBodies ==
    {<<Submission>>} \cup {<<Submission, f>> : f \in Forests}

reddit_comments_impl(submission_id, limit, env, m) ==
    LET t == _reddit_token(env.token, m)
        m2 == Sent(t.m, Request("reddit", "comments",
                                [submission_id |-> submission_id, limit |-> limit]))
        r == http_get(env.reddit)
        data == r.val
    IN IF ~t.out.ok THEN t
       ELSE [out |-> IF r.ok
                     THEN Return([submission |-> data[1],
                                  comments |-> IF Len(data) > 1
                                               THEN extract_comments(data[2], children(data[2], 0))
                                               ELSE <<>>])
                     ELSE r,
             m |-> m2]

---------------------------------------------------------------------------
(* What the tools are called with and what the providers answer them *)

MaxAuthors == 4
MaxPapers == 3

AuthorNames == <<"A", "B", "C", "D", "E", "F">>

\* the "authors" member of a Semantic Scholar paper with n authors; the author
\* at position skip (if any) has no "name" member
S2Authors(n, skip) ==
    [i \in 1..n |-> IF i = skip THEN [authorId |-> AuthorNames[i]]
                    ELSE [authorId |-> AuthorNames[i], name |-> AuthorNames[i]]]

S2Paper(id, members) == Spread([paperId |-> Some(id), title |-> Some("T")], members)

\* papers that differ in their authors: a list of 0..MaxAuthors, one with a
\* nameless author, the member null, the member missing
PapersByAuthors ==
    {S2Paper("a", [authors |-> Some(S2Authors(n, 0))]) : n \in 0..MaxAuthors}
    \cup {S2Paper("a", [authors |-> Some(S2Authors(MaxAuthors, 2))]),
          S2Paper("a", [authors |-> None]), S2Paper("a", <<>>)}

Venues == {<<>>, [venue |-> None], [venue |-> Some("")], [venue |-> Some("V")]}
Journals ==
    {<<>>, [journal |-> None], [journal |-> Some([name |-> Some("J")])],
     [journal |-> Some([volume |-> Some("1")])]}

\* papers that differ in venue and journal
PapersByVenue == {S2Paper("v", Spread(v, j)) : v \in Venues, j \in Journals}

CitationCounts == {<<>>, [citationCount |-> None]}
                  \cup {[citationCount |-> Some(c)] : c \in {0, 1, 5}}

\* papers that differ in their citation count
PapersByCitations == {S2Paper("c", c) : c \in CitationCounts}

\* the bodies a paper search is answered with: no "data", one paper of any
\* kind, several papers of different citation counts
S2SearchAnswers ==
    {[total |-> 0]}
    \cup {[total |-> 1, data |-> <<p>>] : p \in PapersByAuthors \cup PapersByVenue}
    \cup {[total |-> Len(d), data |-> d] : d \in SeqsUpTo(PapersByCitations, MaxPapers)}

MinCitations == {None, Some(0), Some(1), Some(5)}

\* (year_range, fields_of_study)
S2Filters == {<<None, None>>, <<Some("2020"), Some(<<"Medicine">>)>>}

S2DetailsAnswers == S2Papers \cup PapersByAuthors \cup PapersByVenue

S2DataAnswers == {<<>>, [data |-> <<>>], [data |-> <<[title |-> Some("T")]>>]}

P3 == <<"1", "0", "0", "0", "0", "1", "1">>

\* the <Author> elements of an article with n authors; the author at position
\* skip (if any) has no ForeName (a collective name)
XmlAuthors(n, skip) ==
    [i \in 1..n |-> [LastName |-> Some(AuthorNames[i]),
                     ForeName |-> IF i = skip THEN None ELSE Some("F")]]

\* efetch answers that differ in the authors of the one article
EfetchByAuthors ==
    {<<Article(Some(P1), XmlAuthors(n, 0))>> : n \in 0..MaxAuthors}
    \cup {<<Article(Some(P1), XmlAuthors(MaxAuthors, 2))>>}

\* efetch answers that differ in which articles come back and in what order
EfetchByOrder ==
    { <<>>, <<Article(Some(P2), OneAuthor)>>,
      <<Article(Some(P1), OneAuthor), Article(Some(P2), OneAuthor)>>,
      <<Article(Some(P2), OneAuthor), Article(Some(P1), OneAuthor)>>,
      <<Article(Some(P3), OneAuthor), Article(Some(P2), OneAuthor)>>,
      <<Article(None, OneAuthor), Article(Some(P1), OneAuthor)>>,
      <<Article(Some(P1), OneAuthor), Article(Some(P1), <<>>)>> }

ToolEfetchBodies == EfetchByAuthors \cup EfetchByOrder

ToolIdLists == {<<>>, <<P1>>, <<P1, P2>>, <<P2, P1>>}

\* the answers to the requests of pubmed_search
PubmedSearchEnvs(return_details) ==
    {[NoEnv EXCEPT !.esearch = e] : e \in Failures}
    \cup UNION {{[NoEnv EXCEPT !.esearch = Ok(l), !.efetch = f] :
                    f \in IF return_details /\ Len(l) > 0
                          THEN Failures \cup OkOf(ToolEfetchBodies) ELSE {Unused}} :
                 l \in ToolIdLists}

\* the answers to the one request of a fetch of pmids
PubmedFetchEnvs(pmids) ==
    {[NoEnv EXCEPT !.efetch = f] :
        f \in IF Len(pmids) > 0 THEN Failures \cup OkOf(ToolEfetchBodies) ELSE {Unused}}

\* id lists longer than the ones above go up to this many PMIDs
MaxPmids == 12

DigitChar(i) == <<"0", "1", "2", "3", "4", "5", "6", "7", "8", "9">>[i + 1]

\* the k-th PMID of a long id list
LongPmid(k) == <<"2", "0", "0", "0", "0", DigitChar(k \div 10), DigitChar(k % 10)>>

\* id lists of a full batch and of more than a batch
LongIdLists == {[k \in 1..n |-> LongPmid(k)] : n \in PubmedBatch..MaxPmids}

\* the PMIDs PubMed has an article for: all of them, all but the second, only
\* those past the first batch
Corpora ==
    { {LongPmid(k) : k \in 1..MaxPmids},
      {LongPmid(k) : k \in 1..MaxPmids} \ {LongPmid(2)},
      {LongPmid(k) : k \in (PubmedBatch + 1)..MaxPmids} }

\* the "id" parameter of the efetch request a fetch of pmids sends
efetch_ids(pmids) ==
    LET sent == _pubmed_fetch_impl(pmids, Ok(<<>>), Machine(0, 0, <<>>)).m.log
    IN sent[Len(sent)].params.id

\* efetch answers with the articles PubMed has among the ids of the request
efetch_answer(corpus, ids) ==
    LET found == SelectSeq(ids, LAMBDA p : p \in corpus)
    IN [i \in 1..Len(found) |-> Article(Some(found[i]), OneAuthor)]

\* the answers to the one request of a fetch of a long id list
LongEfetchAnswers(pmids) ==
    Failures \cup {Ok(efetch_answer(c, efetch_ids(pmids))) : c \in Corpora}

\* the answers to the requests of pubmed_search when the id search finds a
\* long id list; esearch returns no more than retmax ids
PubmedLongEnvs(return_details, max_results) ==
    UNION {{[NoEnv EXCEPT !.esearch = Ok(l), !.efetch = f] :
               f \in IF return_details THEN LongEfetchAnswers(l) ELSE {Unused}} :
            l \in {x \in LongIdLists : Len(x) <= max_results}}

\* the answers to the one request of pubmed_fetch or pubmed_summary
FetchEnvs(pmids) ==
    IF Len(pmids) < PubmedBatch THEN PubmedFetchEnvs(pmids)
    ELSE {[NoEnv EXCEPT !.efetch = f] : f \in LongEfetchAnswers(pmids)}

One(field, answers) == {[NoEnv EXCEPT ![field] = a] : a \in Failures \cup OkOf(answers)}

\* the answers to the token request and to the request that follows it
RedditEnvs(answers) ==
    {NoEnv @@ [token |-> t, reddit |-> Unused] : t \in Failures}
    \cup {NoEnv @@ [token |-> Ok("tok"), reddit |-> r] : r \in Failures \cup OkOf(answers)}

RedditListings == {<<>>, <<[kind |-> "t3", data |-> [id |-> "x", title |-> "S"]]>>}

CrossrefJournalBodies ==
    { [total_results |-> 0, items |-> <<>>],
      [title |-> Some("J"), total_results |-> 1, items |-> <<[DOI |-> "10.1/a"]>>] }

---------------------------------------------------------------------------
(* The tools, one action each: the call runs to its return or its raise *)

pubmed_search ==
    /\ pc = "idle"
    /\ \E query \in Queries, max_results \in {20, 11}, return_details \in BOOLEAN :
         \E env \in PubmedSearchEnvs(return_details)
                       \cup PubmedLongEnvs(return_details, max_results) :
            Finish([op |-> "pubmed_search", query |-> query, max_results |-> max_results,
                    return_details |-> return_details, env |-> env],
                   _pubmed_search_impl(query, max_results, return_details,
                                       env.esearch, env.efetch,
                                       Machine(now, _last_call, <<>>)),
                   "")

pubmed_fetch ==
    /\ pc = "idle"
    /\ \E pmids \in ToolIdLists \cup LongIdLists :
         \E env \in FetchEnvs(pmids) :
            Finish([op |-> "pubmed_fetch", pmids |-> pmids, env |-> env],
                   _pubmed_fetch_impl(pmids, env.efetch, Machine(now, _last_call, <<>>)),
                   "")

pubmed_summary ==
    /\ pc = "idle"
    /\ \E pmids \in ToolIdLists \cup LongIdLists :
         \E env \in FetchEnvs(pmids) :
            Finish([op |-> "pubmed_summary", pmids |-> pmids, env |-> env],
                   _pubmed_summary_impl(pmids, env.efetch, Machine(now, _last_call, <<>>)),
                   "")

semantic_scholar_search ==
    /\ pc = "idle"
    /\ \E query \in Queries, limit \in {20}, filters \in S2Filters,
          min_citations \in MinCitations :
         \E env \in One("s2", S2SearchAnswers) :
            Finish([op |-> "semantic_scholar_search", query |-> query, limit |-> limit,
                    year_range |-> filters[1], min_citations |-> min_citations,
                    fields_of_study |-> filters[2], env |-> env],
                   _semantic_scholar_search_impl(query, limit, filters[1], min_citations,
                                                 filters[2], env.s2,
                                                 Machine(now, _last_call, <<>>)),
                   "")

semantic_scholar_paper_details ==
    /\ pc = "idle"
    /\ \E paper_id \in {IdS2, IdDoi} :
         \E env \in One("s2", S2DetailsAnswers) :
            Finish([op |-> "semantic_scholar_paper_details", paper_id |-> paper_id,
                    env |-> env],
                   _semantic_scholar_paper_details_impl(paper_id, env.s2,
                                                        Machine(now, _last_call, <<>>)),
                   "")

semantic_scholar_citations ==
    /\ pc = "idle"
    /\ \E paper_id \in {IdS2}, limit \in {20} :
         \E env \in One("s2", S2DataAnswers) :
            Finish([op |-> "semantic_scholar_citations", paper_id |-> paper_id,
                    limit |-> limit, env |-> env],
                   s2_data("paper/citations", [paper_id |-> paper_id, limit |-> limit],
                           env.s2, Machine(now, _last_call, <<>>)),
                   "")

semantic_scholar_references ==
    /\ pc = "idle"
    /\ \E paper_id \in {IdS2}, limit \in {20} :
         \E env \in One("s2", S2DataAnswers) :
            Finish([op |-> "semantic_scholar_references", paper_id |-> paper_id,
                    limit |-> limit, env |-> env],
                   s2_data("paper/references", [paper_id |-> paper_id, limit |-> limit],
                           env.s2, Machine(now, _last_call, <<>>)),
                   "")

semantic_scholar_author_search ==
    /\ pc = "idle"
    /\ \E author_name \in {"A"}, limit \in {10} :
         \E env \in One("s2", S2DataAnswers) :
            Finish([op |-> "semantic_scholar_author_search", author_name |-> author_name,
                    limit |-> limit, env |-> env],
                   s2_data("author/search", [query |-> author_name, limit |-> limit],
                           env.s2, Machine(now, _last_call, <<>>)),
                   "")

semantic_scholar_author_papers ==
    /\ pc = "idle"
    /\ \E author_id \in {"A"}, limit \in {20} :
         \E env \in One("s2", S2DataAnswers) :
            Finish([op |-> "semantic_scholar_author_papers", author_id |-> author_id,
                    limit |-> limit, env |-> env],
                   s2_data("author/papers", [author_id |-> author_id, limit |-> limit],
                           env.s2, Machine(now, _last_call, <<>>)),
                   "")

reddit_search ==
    /\ pc = "idle"
    /\ \E query \in Queries, limit \in {20}, sort \in {"new"}, search_type \in {"link", "all"} :
         \E env \in RedditEnvs(RedditListings) :
            Finish([op |-> "reddit_search", query |-> query, limit |-> limit,
                    sort |-> sort, search_type |-> search_type, env |-> env],
                   reddit_listing("search",
                                  reddit_search_params(query, limit, sort, search_type),
                                  env, Machine(now, _last_call, <<>>)),
                   "")

reddit_subreddit_search ==
    /\ pc = "idle"
    /\ \E subreddit \in {"r"}, query \in Queries, limit \in {20}, sort \in {"new"} :
         \E env \in RedditEnvs(RedditListings) :
            Finish([op |-> "reddit_subreddit_search", subreddit |-> subreddit,
                    query |-> query, limit |-> limit, sort |-> sort, env |-> env],
                   reddit_listing("r/search",
                                  [subreddit |-> subreddit, q |-> query, limit |-> limit,
                                   sort |-> sort, restrict_sr |-> "true"],
                                  env, Machine(now, _last_call, <<>>)),
                   "")

reddit_comments ==
    /\ pc = "idle"
    /\ \E submission_id \in {"x"}, limit \in {50} :
         \E env \in RedditEnvs(CommentsBodies) :
            Finish([op |-> "reddit_comments", submission_id |-> submission_id,
                    limit |-> limit, env |-> env],
                   reddit_comments_impl(submission_id, limit, env,
                                        Machine(now, _last_call, <<>>)),
                   "")

arxiv_search ==
    /\ pc = "idle"
    /\ \E query \in Queries, max_results \in {20}, sort_by \in {"relevance"} :
         \E env \in One("arxiv", ArxivFeeds) :
            Finish([op |-> "arxiv_search", query |-> query, max_results |-> max_results,
                    sort_by |-> sort_by, env |-> env],
                   _arxiv_search_impl(query, max_results, sort_by, env.arxiv,
                                      Machine(now, _last_call, <<>>)),
                   "")

arxiv_paper ==
    /\ pc = "idle"
    /\ \E arxiv_id \in {IdArxiv} :
         \E env \in One("arxiv", ArxivFeeds) :
            Finish([op |-> "arxiv_paper", arxiv_id |-> arxiv_id, env |-> env],
                   arxiv_paper_impl(arxiv_id, env.arxiv, Machine(now, _last_call, <<>>)),
                   "")

\* filter_dict is None in every call drawn here
crossref_works_search ==
    /\ pc = "idle"
    /\ \E query \in Queries, rows \in {20} :
         \E env \in One("crossref", CrossrefSearchBodies) :
            Finish([op |-> "crossref_works_search", query |-> query, rows |-> rows,
                    filter_dict |-> None, env |-> env],
                   _crossref_works_search_impl(query, rows, env.crossref,
                                               Machine(now, _last_call, <<>>)),
                   "")

crossref_doi_lookup ==
    /\ pc = "idle"
    /\ \E doi \in {IdDoi} :
         \E env \in One("crossref", CrossrefWorks) :
            Finish([op |-> "crossref_doi_lookup", doi |-> doi, env |-> env],
                   _crossref_doi_lookup_impl(doi, env.crossref,
                                             Machine(now, _last_call, <<>>)),
                   "")

crossref_journal_works ==
    /\ pc = "idle"
    /\ \E issn \in {"1234-5678"}, rows \in {20} :
         \E env \in One("crossref", CrossrefJournalBodies) :
            Finish([op |-> "crossref_journal_works", issn |-> issn, rows |-> rows,
                    env |-> env],
                   crossref_journal_works_impl(issn, rows, env.crossref,
                                               Machine(now, _last_call, <<>>)),
                   "")

NextTools ==
    \/ pubmed_search
    \/ pubmed_fetch
    \/ pubmed_summary
    \/ semantic_scholar_search
    \/ semantic_scholar_paper_details
    \/ semantic_scholar_citations
    \/ semantic_scholar_references
    \/ semantic_scholar_author_search
    \/ semantic_scholar_author_papers
    \/ reddit_search
    \/ reddit_subreddit_search
    \/ reddit_comments
    \/ arxiv_search
    \/ arxiv_paper
    \/ crossref_works_search
    \/ crossref_doi_lookup
    \/ crossref_journal_works
    \/ multi_database_search
    \/ get_paper_by_identifier
    \/ Respond
    \/ Tick

\* every tool of the server
SpecTools == Init /\ [][NextTools]_vars

---------------------------------------------------------------------------
(* Author lists *)

Returned(op) == pc = "returned" /\ call.op = op

\* the names joined by ", "
RECURSIVE Joined(_)
Joined(names) ==
    IF Len(names) = 0 THEN <<>>
    ELSE IF Len(names) = 1 THEN <<names[1]>>
    ELSE <<names[1], ", ">> \o Joined(Tail(names))

FirstThree(names) == [i \in 1..(IF Len(names) < 3 THEN Len(names) ELSE 3) |-> names[i]]

\* the display string of a record with these authors: the first three names
\* joined, with " et al." after them exactly when there are more than three
IsAuthorList(list, names) ==
    list = Joined(FirstThree(names)) \o (IF Len(names) > 3 THEN <<" et al.">> ELSE <<>>)

\* the author names of a Semantic Scholar record, in the order of its authors member
S2Names(r) ==
    IF "authors" \in DOMAIN r /\ ~IsNone(r.authors)
    THEN [i \in 1..Len(Val(r.authors)) |->
            IF "name" \in DOMAIN Val(r.authors)[i] THEN Val(r.authors)[i].name
            ELSE "Unknown"]
    ELSE <<>>

\* the author names of the article of this PMID in an efetch answer: the
\* <Author> elements that have both names, "ForeName LastName"
XmlNames(elems, pmid) ==
    LET a == elems[CHOOSE i \in 1..Len(elems) :
                      /\ elems[i].pmid = Some(pmid)
                      /\ \A j \in (i + 1)..Len(elems) : elems[j].pmid # Some(pmid)]
        both == SelectSeq(a.authors, LAMBDA x :
                    /\ ~IsNone(x.LastName) /\ Val(x.LastName) # ""
                    /\ ~IsNone(x.ForeName) /\ Val(x.ForeName) # "")
    IN [i \in 1..Len(both) |-> <<Val(both[i].ForeName), " ", Val(both[i].LastName)>>]

\* the records of a PubMed search (not the bare id list)
IsPubmedRecords(c, l) == c.env.efetch.kind = "ok" /\ IsList(l)

AllS2AuthorLists(l) == \A i \in 1..Len(l) : IsAuthorList(l[i].author_list, S2Names(l[i]))

AllPubmedAuthorLists(c, l) ==
    \A i \in 1..Len(l) :
        /\ IsAuthorList(l[i].author_list, l[i].authors)
        /\ l[i].authors = XmlNames(c.env.efetch.payload, l[i].pmid)

\* C11: in every record that carries an author_list (the records of a PubMed
\* search, the authors field of a PubMed summary, the results of a Semantic
\* Scholar search and the Semantic Scholar paper details, whether the tool is
\* called directly or through the fan-out or the resolver) the author_list is
\* the first 3 author names in provider order joined by ", ", and it ends with
\* " et al." if and only if the record has more than 3 authors.
C11_AuthorList ==
    /\ Returned("pubmed_search") /\ IsPubmedRecords(call, result)
          => AllPubmedAuthorLists(call, result)
    /\ Returned("pubmed_summary")
          => \A i \in 1..Len(result) :
                IsAuthorList(result[i].authors,
                             XmlNames(call.env.efetch.payload, result[i].pmid))
    /\ Returned("semantic_scholar_search") => AllS2AuthorLists(result)
    /\ Returned("semantic_scholar_paper_details")
          => IsAuthorList(result.author_list, S2Names(result))
    /\ Returned("multi_database_search")
          => /\ "pubmed" \in DOMAIN result /\ IsPubmedRecords(call, result["pubmed"])
                   => AllPubmedAuthorLists(call, result["pubmed"])
             /\ "semantic_scholar" \in DOMAIN result
                   => AllS2AuthorLists(result["semantic_scholar"])
    /\ Returned("get_paper_by_identifier") /\ "source" \in DOMAIN result
          => /\ result.source = "semantic_scholar"
                   => IsAuthorList(result.author_list, S2Names(result))
             /\ result.source = "crossref+semantic_scholar"
                   => IsAuthorList(result.semantic_scholar.author_list,
                                   S2Names(result.semantic_scholar))

\* a Semantic Scholar search returns a paper of more than 3 authors, its
\* author_list three names and " et al."
C11_Witness ==
    /\ Returned("semantic_scholar_search")
    /\ Len(result) = 1
    /\ Len(S2Names(result[1])) > 3
    /\ result[1].author_list = <<"A", ", ", "B", ", ", "C", " et al.">>

---------------------------------------------------------------------------
(* No retries *)

Done == pc \in {"returned", "raised"}

\* the answer the provider gave to a request of the call
AnswerOf(req) ==
    IF req.provider = "pubmed"
    THEN (IF req.endpoint = "esearch" THEN call.env.esearch ELSE call.env.efetch)
    ELSE IF req.provider = "semantic_scholar" THEN call.env.s2
    ELSE IF req.provider = "arxiv" THEN call.env.arxiv
    ELSE IF req.provider = "crossref" THEN call.env.crossref
    ELSE IF req.endpoint = "access_token" THEN call.env.token
    ELSE call.env.reddit

\* the request failed: no connection, a non-2xx status, or a body that does not parse
RequestFailed(req) == AnswerOf(req).kind \in FailureKinds

\* the exception a failed request raises
ExceptionOf(req) ==
    IF AnswerOf(req).kind = "network_error" THEN "ConnectionError"
    ELSE IF AnswerOf(req).kind = "http_error" THEN "HTTPError"
    ELSE "ParseError"

\* C12: no outbound request is ever retried.  Within one tool call each
\* outbound HTTP request is issued at most once; after a request fails, the
\* adapter that made it issues no further request and fails at once: a tool
\* other than the fan-out and the resolver raises that failure with the failed
\* request its last one, the resolver returns (its structured error or the
\* CrossRef-only fallback) without a further request, and the fan-out goes on
\* only to other providers.
C12_NoRetry ==
    Done =>
      LET reqs == RequestsOf(log)
      IN /\ \A i, j \in 1..Len(reqs) :
               i < j => ~(/\ reqs[i].provider = reqs[j].provider
                          /\ reqs[i].endpoint = reqs[j].endpoint)
         /\ \A i \in 1..Len(reqs) :
               RequestFailed(reqs[i]) =>
                  IF IsFanoutCall
                  THEN /\ pc = "returned"
                       /\ \A j \in (i + 1)..Len(reqs) : reqs[j].provider # reqs[i].provider
                  ELSE IF IsResolverCall
                  THEN /\ pc = "returned"
                       /\ i = Len(reqs)
                       /\ \/ IsStructuredError
                          \/ reqs[i].provider = "semantic_scholar" /\ CallKind = "doi"
                  ELSE /\ pc = "raised"
                       /\ i = Len(reqs)
                       /\ result.type = ExceptionOf(reqs[i])

\* pubmed_search: the id search is answered, the detail fetch fails, and the
\* call raises after these two requests
C12_Witness ==
    /\ pc = "raised"
    /\ call.op = "pubmed_search"
    /\ call.env.efetch.kind = "http_error"
    /\ Len(RequestsOf(log)) = 2
    /\ result.type = "HTTPError"

---------------------------------------------------------------------------
(* The rate limiter in front of every Semantic Scholar request *)

S2Tools ==
    {"semantic_scholar_search", "semantic_scholar_paper_details",
     "semantic_scholar_citations", "semantic_scholar_references",
     "semantic_scholar_author_search", "semantic_scholar_author_papers"}

IsS2Request(e) == e.ev = "request" /\ e.provider = "semantic_scholar"

CountOf(events, kind) == Cardinality({i \in 1..Len(events) : events[i].ev = kind})

\* C13: every outbound Semantic Scholar request (of the six Semantic Scholar
\* tools, and of the fan-out and the resolver) is preceded in the same call by
\* exactly one pass through the rate limiter, which reads the last-call
\* timestamp at its start and writes it immediately before the request is
\* sent; the write stays whether or not the request then succeeds.
C13_LimiterBeforeRequest ==
    Done =>
      /\ \A i \in 1..Len(log) :
            IsS2Request(log[i]) =>
               /\ i >= 3
               /\ log[i - 2].ev = "rl_read"
               /\ log[i - 1].ev = "rl_write"
               /\ log[i - 1].at >= log[i - 2].at
               /\ (\A j \in (i + 1)..Len(log) : log[j].ev # "rl_write")
                     => _last_call = log[i - 1].at
      /\ CountOf(log, "rl_read") = Cardinality({i \in 1..Len(log) : IsS2Request(log[i])})
      /\ CountOf(log, "rl_write") = CountOf(log, "rl_read")
      /\ call.op \in S2Tools =>
            /\ Len(log) = 3
            /\ IsS2Request(log[3])
            /\ _last_call = log[2].at

\* a Semantic Scholar request that failed: the timestamp was written all the same
C13_Witness ==
    /\ pc = "raised"
    /\ call.op = "semantic_scholar_citations"
    /\ call.env.s2.kind = "network_error"
    /\ Len(log) = 3
    /\ log[2].ev = "rl_write"
    /\ _last_call = log[2].at
    /\ _last_call > 0

---------------------------------------------------------------------------
(* The doi path of the resolver *)

IsDoiCall == IsResolverCall /\ Done /\ CallKind = "doi"

\* the result carries the CrossRef record: under "crossref", or member by member
HasCrossrefData(rec) ==
    \/ "crossref" \in DOMAIN result /\ result["crossref"] = rec
    \/ \A k \in DOMAIN rec : k \in DOMAIN result /\ result[k] = rec[k]

\* C14: in the doi path of the resolver the CrossRef lookup is made first and
\* the Semantic Scholar lookup only after it has succeeded: when the CrossRef
\* lookup fails the result is the structured error and no Semantic Scholar
\* request is made, so every result of the doi path that is not the error
\* contains the CrossRef data.
C14_CrossrefFirst ==
    IsDoiCall =>
      LET reqs == RequestsOf(log)
      IN /\ Len(reqs) >= 1
         /\ reqs[1].provider = "crossref"
         /\ reqs[1].params.doi = call.identifier
         /\ \A i \in 1..Len(reqs) :
               reqs[i].provider = "semantic_scholar"
                  => i = 2 /\ Answered(call.env.crossref)
         /\ ~Answered(call.env.crossref)
               => IsStructuredError /\ Len(reqs) = 1 /\ ~Queried("semantic_scholar")
         /\ ~IsStructuredError
               => Answered(call.env.crossref) /\ HasCrossrefData(call.env.crossref.payload)

\* a DOI whose CrossRef lookup fails: the error, and CrossRef the only request
C14_Witness ==
    /\ IsDoiCall
    /\ call.env.crossref.kind = "http_error"
    /\ IsStructuredError
    /\ Len(RequestsOf(log)) = 1
    /\ log[1].provider = "crossref"

---------------------------------------------------------------------------
(* The dispatch table of the resolver *)

IsRequest(req, provider, endpoint) == req.provider = provider /\ req.endpoint = endpoint

\* C15: the resolver dispatches on the effective kind (the supplied id_type
\* when given, whatever the classifier would say; otherwise the classifier's
\* result) and calls only the adapters of that kind: doi -> the CrossRef DOI
\* lookup, then Semantic Scholar details; pmid -> the PubMed detail fetch of
\* that one identifier only; arxiv -> the arXiv search with query
\* "id:<identifier>" and max_results = 1 only; s2 -> Semantic Scholar details
\* only, the result's source being "semantic_scholar".
C15_Dispatch ==
    IsResolverCall /\ Done =>
      LET reqs == RequestsOf(log)
      IN /\ id_type = CallKind
         /\ CallKind = "doi" =>
               /\ Len(reqs) \in {1, 2}
               /\ IsRequest(reqs[1], "crossref", "works/doi")
               /\ reqs[1].params.doi = call.identifier
               /\ Len(reqs) = 2 =>
                     /\ IsRequest(reqs[2], "semantic_scholar", "paper")
                     /\ reqs[2].params.paper_id = call.identifier
         /\ CallKind = "pmid" =>
               /\ Len(reqs) = 1
               /\ IsRequest(reqs[1], "pubmed", "efetch")
               /\ reqs[1].params.id = <<call.identifier>>
         /\ CallKind = "arxiv" =>
               /\ Len(reqs) = 1
               /\ IsRequest(reqs[1], "arxiv", "query")
               /\ reqs[1].params.search_query = <<"id:">> \o call.identifier
               /\ reqs[1].params.max_results = 1
         /\ CallKind = "s2" =>
               /\ Len(reqs) = 1
               /\ IsRequest(reqs[1], "semantic_scholar", "paper")
               /\ reqs[1].params.paper_id = call.identifier
               /\ ~IsStructuredError => result.source = "semantic_scholar"

\* a DOI-shaped identifier supplied as a pmid: the PubMed fetch and nothing else
C15_Witness ==
    /\ IsResolverCall /\ Done
    /\ call.identifier = IdDoi
    /\ call.id_type = Some("pmid")
    /\ id_type = "pmid"
    /\ Len(RequestsOf(log)) = 1
    /\ log[1].provider = "pubmed"

---------------------------------------------------------------------------
(* venue_info of the search results *)

NonEmpty(o) == ~IsNone(o) /\ Val(o) # ""

\* the name of the paper's journal: of a mapping its name member, otherwise none
JournalName(p) ==
    IF "journal" \in DOMAIN p /\ ~IsNone(p.journal) THEN get(Val(p.journal), "name")
    ELSE None

\* the venue when it is not empty, otherwise the journal name
VenueElseJournal(p) ==
    IF "venue" \in DOMAIN p /\ NonEmpty(p.venue) THEN p.venue ELSE JournalName(p)

\* C16: for every paper returned by semantic_scholar_search, venue_info is the
\* paper's venue when the venue is not empty and otherwise the paper's journal
\* name, whatever the combination of venue present, empty or missing and
\* journal a mapping, null or missing.
C16_VenueInfo ==
    Returned("semantic_scholar_search") =>
       \A i \in 1..Len(result) : result[i].venue_info = VenueElseJournal(result[i])

---------------------------------------------------------------------------
(* The min_citations filter *)

\* the papers of the provider's answer
ResponsePapers(resp) == IF "data" \in DOMAIN resp.payload THEN resp.payload["data"] ELSE <<>>

\* a paper's citation count, a missing or null count being 0
Citations(p) ==
    IF "citationCount" \in DOMAIN p /\ ~IsNone(p.citationCount) THEN Val(p.citationCount)
    ELSE 0

\* the papers a search with these arguments is to return
PapersToReturn(c) ==
    IF IsNone(c.min_citations) THEN ResponsePapers(c.env.s2)
    ELSE SelectSeq(ResponsePapers(c.env.s2), LAMBDA p : Citations(p) >= Val(c.min_citations))

\* the returned record is this paper of the answer (with members added)
IsPaper(r, p) == \A k \in DOMAIN p : k \in DOMAIN r /\ r[k] = p[k]

\* C17: when min_citations is given, semantic_scholar_search sends no citation
\* filter to the provider and returns exactly the papers of the provider's
\* answer, in the answer's order, whose citation count (a missing or null
\* count taken as 0) is >= min_citations; when min_citations is not given,
\* every paper of the answer is returned.
C17_MinCitations ==
    Returned("semantic_scholar_search") =>
       /\ Len(result) = Len(PapersToReturn(call))
       /\ \A i \in 1..Len(result) : IsPaper(result[i], PapersToReturn(call)[i])
       /\ \A i \in 1..Len(log) :
             log[i].ev = "request" =>
                DOMAIN log[i].params \subseteq {"query", "limit", "year", "fieldsOfStudy"}

\* three papers of 5, 0 and 1 citations, min_citations = 1: the first and the third
C17_Witness ==
    /\ Returned("semantic_scholar_search")
    /\ call.min_citations = Some(1)
    /\ Len(ResponsePapers(call.env.s2)) = 3
    /\ Citations(ResponsePapers(call.env.s2)[1]) = 5
    /\ Citations(ResponsePapers(call.env.s2)[2]) = 0
    /\ Citations(ResponsePapers(call.env.s2)[3]) = 1
    /\ Len(result) = 2
    /\ result[1].citationCount = Some(5)
    /\ result[2].citationCount = Some(1)

---------------------------------------------------------------------------
(* The records of a PubMed search *)

\* the PMIDs of the id list that the detail fetch answered, in the order of the id list
FoundInOrder(idlist, resp) == SelectSeq(idlist, LAMBDA p : p \in AnsweredPmids(resp))

IsPubmedSearch == call.op = "pubmed_search" /\ Done

WithDetails == call.return_details /\ Len(call.env.esearch.payload) > 0

\* C18: pubmed_search with return_details = true returns the records of the
\* PMIDs the id search found, in the order of the id list: the enriched list is
\* the subsequence of the id list made of exactly the PMIDs present in the
\* mapping of the detail fetch, the missing ones dropped without error; with
\* return_details = false or an empty id list the id list itself is returned
\* and no detail fetch is made.
C18_SearchOrder ==
    IsPubmedSearch /\ Answered(call.env.esearch) =>
       IF WithDetails
       THEN /\ Len(RequestsOf(log)) = 2
            /\ Answered(call.env.efetch) =>
                  /\ pc = "returned"
                  /\ [i \in 1..Len(result) |-> result[i].pmid]
                        = FoundInOrder(call.env.esearch.payload, call.env.efetch)
       ELSE /\ pc = "returned"
            /\ result = call.env.esearch.payload
            /\ Len(RequestsOf(log)) = 1
            /\ log[1].endpoint = "esearch"

\* the id search finds P2 then P1, the detail fetch answers P1 then P2: the
\* records are those of P2 then P1
C18_Witness ==
    /\ IsPubmedSearch /\ pc = "returned"
    /\ call.return_details
    /\ call.env.esearch.payload = <<P2, P1>>
    /\ Answered(call.env.efetch)
    /\ Len(call.env.efetch.payload) = 2
    /\ call.env.efetch.payload[1].pmid = Some(P1)
    /\ Len(result) = 2
    /\ result[1].pmid = P2
    /\ result[2].pmid = P1

---------------------------------------------------------------------------
(* The flattened comment tree *)

RECURSIVE Ancestors(_, _)
Ancestors(f, i) ==
    IF parent(f, i) = 0 THEN {} ELSE {parent(f, i)} \cup Ancestors(f, parent(f, i))

\* node a and everything below it
Subtree(f, a) == {a} \cup {x \in 1..Len(f.depth) : a \in Ancestors(f, x)}

CommentNodes(f) == {n \in 1..Len(f.depth) : f.kind[n] = "t1"}

\* where the entry of comment n stands in the flat list
Positions(flat, n) == {i \in 1..Len(flat) : flat[i].id = n}

Before(flat, x, y) == \A i \in Positions(flat, x), j \in Positions(flat, y) : i < j

HasTree == Returned("reddit_comments") /\ Len(call.env.reddit.payload) > 1

\* C19: reddit_comments flattens the comment tree in depth-first pre-order:
\* each comment node (kind "t1") appears in the flat list exactly once, before
\* all of its descendants and after the subtrees of all its earlier siblings;
\* a node of any other kind (a "more" stub) contributes no entry.
C19_PreOrder ==
    /\ HasTree =>
         LET f == call.env.reddit.payload[2]
             flat == result.comments
         IN /\ \A n \in CommentNodes(f) : Cardinality(Positions(flat, n)) = 1
            /\ \A i \in 1..Len(flat) : flat[i].id \in CommentNodes(f)
            /\ \A n, d \in CommentNodes(f) : n \in Ancestors(f, d) => Before(flat, n, d)
            /\ \A a, b \in 1..Len(f.depth) :
                  parent(f, a) = parent(f, b) /\ a < b =>
                     \A x \in Subtree(f, a) \cap CommentNodes(f),
                        y \in Subtree(f, b) \cap CommentNodes(f) : Before(flat, x, y)
    /\ Returned("reddit_comments") /\ ~HasTree => result.comments = <<>>

\* a comment with a reply and a "more" stub below it, then a second top-level
\* comment: the flat list is comment, reply, second comment
C19_Witness ==
    /\ HasTree
    /\ call.env.reddit.payload[2].depth = <<1, 2, 2, 1>>
    /\ call.env.reddit.payload[2].kind = <<"t1", "t1", "more", "t1">>
    /\ [i \in 1..Len(result.comments) |-> result.comments[i].id] = <<1, 2, 4>>

---------------------------------------------------------------------------
(* An id_type that is none of the four kinds *)

KnownKinds == {"doi", "pmid", "arxiv", "s2"}

UnknownKindCall(c) ==
    /\ c.op = "get_paper_by_identifier"
    /\ ~IsNone(c.id_type)
    /\ Val(c.id_type) \notin KnownKinds

\* C20: when get_paper_by_identifier is called with an explicit id_type outside
\* {doi, pmid, arxiv, s2}, it makes no outbound request, leaves the rate-limit
\* timestamp unchanged, and returns the structured error {error, identifier,
\* id_type} with id_type equal to the supplied value.
C20_UnknownKind ==
    [][pc = "idle" /\ UnknownKindCall(call')
          => /\ pc' = "returned"
             /\ log' = <<>>
             /\ _last_call' = _last_call
             /\ now' = now
             /\ DOMAIN result' = {"error", "identifier", "id_type"}
             /\ result'.identifier = call'.identifier
             /\ result'.id_type = Val(call'.id_type)]_vars

\* a call with id_type "isbn" has returned its error, nothing sent
C20_Witness ==
    /\ pc = "returned"
    /\ UnknownKindCall(call)
    /\ call.id_type = Some("isbn")
    /\ log = <<>>
    /\ result.id_type = "isbn"
    /\ result.error = <<"Unknown identifier type: ", "isbn">>

---------------------------------------------------------------------------
(* The order of the fan-out *)

\* the place of a provider's block in _multi_database_search_impl
BlockOrder(p) ==
    CASE p = "pubmed" -> 1
      [] p = "semantic_scholar" -> 2
      [] p = "arxiv" -> 3
      [] p = "crossref" -> 4

\* the requests are sent in the order of the blocks
InBlockOrder(reqs) ==
    \A i, j \in 1..Len(reqs) :
        i < j => BlockOrder(reqs[i].provider) <= BlockOrder(reqs[j].provider)

\* the requests of one search of provider p: two for pubmed when the id search
\* found something (esearch, then efetch), one otherwise
OneSearch(reqs, p) ==
    LET mine == SelectSeq(reqs, LAMBDA r : r.provider = p)
    IN IF p = "pubmed"
       THEN \/ Len(mine) = 1 /\ mine[1].endpoint = "esearch"
            \/ /\ Len(mine) = 2
               /\ mine[1].endpoint = "esearch"
               /\ mine[2].endpoint = "efetch"
       ELSE Len(mine) = 1 /\ mine[1].endpoint \in SearchEndpoints

\* what a finished fan-out call sent and returned
FanoutLog ==
    LET reqs == RequestsOf(log)
    IN /\ pc = "returned"
       /\ \A i \in 1..Len(reqs) : reqs[i].provider \in Providers
       /\ InBlockOrder(reqs)
       /\ \A p \in Providers :
             IF p \in RequestedNames
             THEN OneSearch(reqs, p)
             ELSE /\ ~Queried(p)
                  /\ p \notin DOMAIN result
                  /\ ErrorKey(p) \notin DOMAIN result
       /\ CountOf(log, "rl_write") =
             IF "semantic_scholar" \in RequestedNames THEN 1 ELSE 0
       /\ \A i \in 1..Len(log) :
             log[i].ev = "rl_write" =>
                 /\ i < Len(log)
                 /\ IsS2Request(log[i + 1])
                 /\ _last_call = log[i].at

\* C21: in multi_database_search each of the four known providers is queried at
\* most once per call, in the fixed order pubmed, semantic_scholar, arxiv,
\* crossref regardless of the order or repetition of names in the databases
\* list; a known provider not named in the list is never queried and
\* contributes no key, and only a semantic_scholar query touches the
\* rate-limit timestamp.
C21_FanoutOrder ==
    [][(pc = "idle" /\ call'.op = "multi_database_search")
          => /\ FanoutLog'
             /\ "semantic_scholar" \notin RequestedNames' => _last_call' = _last_call]_vars

\* crossref named before pubmed, and pubmed still asked first; the timestamp
\* is the one an earlier call left
C21_Witness ==
    /\ IsFanoutCall
    /\ pc = "returned"
    /\ call.databases = Some(<<"crossref", "pubmed">>)
    /\ DOMAIN result = {"pubmed", "crossref"}
    /\ Len(log) = 3
    /\ IsRequest(log[1], "pubmed", "esearch")
    /\ IsRequest(log[2], "pubmed", "efetch")
    /\ IsRequest(log[3], "crossref", "works")
    /\ _last_call > 0

---------------------------------------------------------------------------
(* One batch of PubMed details *)

IsPubmedTool == call.op \in {"pubmed_search", "pubmed_fetch", "pubmed_summary"}

\* the PMIDs the detail fetch of the call is given
GivenPmids ==
    IF call.op = "pubmed_search"
    THEN (IF Answered(call.env.esearch) THEN call.env.esearch.payload ELSE <<>>)
    ELSE call.pmids

EfetchRequests == SelectSeq(log, LAMBDA e : e.ev = "request" /\ e.endpoint = "efetch")

\* the number of records in what the call returned
RecordCount ==
    IF call.op = "pubmed_fetch" THEN Cardinality(DOMAIN result) ELSE Len(result)

ReturnsRecords ==
    /\ pc = "returned"
    /\ call.op = "pubmed_search" => WithDetails

\* C22: a single PubMed detail fetch requests only the first 10 of the PMIDs
\* given and is never followed by a second batch, so for every max_results the
\* enriched list returned by pubmed_search (and the list returned by
\* pubmed_summary, and the mapping returned by pubmed_fetch) holds at most 10
\* records, even when the id search found more than 10 PMIDs.
C22_OneBatch ==
    (IsPubmedTool /\ Done) =>
        /\ Len(EfetchRequests) <= 1
        /\ \A i \in 1..Len(EfetchRequests) :
              /\ Len(EfetchRequests[i].params.id) <= 10
              /\ EfetchRequests[i].params.id = Take(GivenPmids, 10)
        /\ ReturnsRecords => RecordCount <= 10

\* the id search found 12 PMIDs, PubMed has an article for each, and the
\* enriched list holds the first 10
C22_Witness ==
    /\ Returned("pubmed_search")
    /\ WithDetails
    /\ Len(GivenPmids) = 12
    /\ Len(EfetchRequests) = 1
    /\ Len(EfetchRequests[1].params.id) = 10
    /\ Len(result) = 10
    /\ result[10].pmid = GivenPmids[10]

===========================================================================
